---- MODULE Spec2Model ----
(***************************************************************************)
(* MMA fantasy REST API: the event / fighter / bout reconciliation engine  *)
(* (eventService, eventResultsService), the betting ledger (betService)    *)
(* and the relational store they run against.                              *)
(*                                                                         *)
(* Text values (names, record strings, result strings) are sequences of    *)
(* one-character strings, so that parsing is computed and not assumed.     *)
(* Identifiers generated by the store are positive integers; 0 stands for  *)
(* null / "no row".                                                        *)
(***************************************************************************)
EXTENDS FiniteSets, Integers, Sequences, TLC

\* ------------------------------------------------------------------------
\* Bounds of the model
\* ------------------------------------------------------------------------
MaxEvents == 1
MaxFighters == 3
MaxBoutRows == 2
MaxBetTypes == 2
MaxRejections == 1
MaxTokens == 3
MaxSegments == 4
PortLimit == 4
MaxTime == 2

\* ------------------------------------------------------------------------
\* Text helpers (JavaScript String / parseInt / RegExp semantics)
\* ------------------------------------------------------------------------
DigitChars == <<"0", "1", "2", "3", "4", "5", "6", "7", "8", "9">>

IsDigit(c) == \E d \in 1..Len(DigitChars) : DigitChars[d] = c

DigitVal(c) == (CHOOSE d \in 1..Len(DigitChars) : DigitChars[d] = c) - 1

IsSpace(c) == c \in {" ", "\n", "\t", "\r"}

\* s with its first n characters removed
Drop(s, n) == IF n >= Len(s) THEN <<>> ELSE SubSeq(s, n + 1, Len(s))

\* s cut to its first n characters
Take(s, n) == IF n >= Len(s) THEN s ELSE SubSeq(s, 1, n)

\* number of leading characters of s that are white space
SpaceRun(s) ==
  CHOOSE n \in 0..Len(s) :
    /\ \A i \in 1..n : IsSpace(s[i])
    /\ n < Len(s) => ~IsSpace(s[n + 1])

\* number of leading characters of s that are decimal digits
DigitRun(s) ==
  CHOOSE n \in 0..Len(s) :
    /\ \A i \in 1..n : IsDigit(s[i])
    /\ n < Len(s) => ~IsDigit(s[n + 1])

\* value of a sequence of decimal digits, read from the left
DigitsValue(s) ==
  LET read[i \in 0..Len(s)] ==
        IF i = 0 THEN 0 ELSE 10 * read[i - 1] + DigitVal(s[i])
  IN read[Len(s)]

\* String.prototype.startsWith at the head of s
StartsWith(s, p) == Len(s) >= Len(p) /\ SubSeq(s, 1, Len(p)) = p

\* String.prototype.includes
Includes(s, p) == \E i \in 0..Len(s) : StartsWith(Drop(s, i), p)

\* String.prototype.trim
TrimEnd(s) ==
  LET n == CHOOSE k \in 0..Len(s) :
             /\ \A i \in (k + 1)..Len(s) : IsSpace(s[i])
             /\ k > 0 => ~IsSpace(s[k])
  IN Take(s, n)

Trim(s) == TrimEnd(Drop(s, SpaceRun(s)))

\* String.prototype.split on a one-character separator
\* variant: a separator at the head of the text stays with the first part
Split_KeepLeadingSign(s, sep) ==
  LET at == {i \in 2..Len(s) : s[i] = sep}
      n == Cardinality(at)
      cut(k) == IF k = 0 THEN 0
                ELSE IF k > n THEN Len(s) + 1
                ELSE CHOOSE i \in at : Cardinality({j \in at : j <= i}) = k
  IN [k \in 1..(n + 1) |-> SubSeq(s, cut(k - 1) + 1, cut(k) - 1)]

Split(s, sep) ==
  LET at == {i \in 1..Len(s) : s[i] = sep}
      n == Cardinality(at)
      \* position of the k-th separator; 0 before the first, Len(s) + 1 after the last
      cut(k) == IF k = 0 THEN 0
                ELSE IF k > n THEN Len(s) + 1
                ELSE CHOOSE i \in at : Cardinality({j \in at : j <= i}) = k
  IN [k \in 1..(n + 1) |-> SubSeq(s, cut(k - 1) + 1, cut(k) - 1)]

HexLetters == <<"a", "b", "c", "d", "e", "f">>

HexCapitals == <<"A", "B", "C", "D", "E", "F">>

IsHexDigit(c) ==
  IsDigit(c) \/ \E d \in 1..Len(HexLetters) : c \in {HexLetters[d], HexCapitals[d]}

HexVal(c) ==
  IF IsDigit(c) THEN DigitVal(c)
  ELSE 9 + CHOOSE d \in 1..Len(HexLetters) : c \in {HexLetters[d], HexCapitals[d]}

\* number of leading characters of s that are hexadecimal digits
HexRun(s) ==
  CHOOSE n \in 0..Len(s) :
    /\ \A i \in 1..n : IsHexDigit(s[i])
    /\ n < Len(s) => ~IsHexDigit(s[n + 1])

\* value of a sequence of hexadecimal digits, read from the left
HexValue(s) ==
  LET read[i \in 0..Len(s)] ==
        IF i = 0 THEN 0 ELSE 16 * read[i - 1] + HexVal(s[i])
  IN read[Len(s)]

\* s starts with the prefix of a hexadecimal literal
HasHexPrefix(s) == Len(s) >= 2 /\ s[1] = "0" /\ s[2] \in {"x", "X"}

\* parseInt(s) with no radix: leading white space is skipped, one sign is
\* accepted, then the prefix of decimal digits is read, or of hexadecimal
\* digits after 0x / 0X; NaN when there is no such digit.
parseInt(s) ==
  LET t == Drop(s, SpaceRun(s))
      signed == t # <<>> /\ Head(t) \in {"+", "-"}
      u == IF signed THEN Tail(t) ELSE t
      n == IF HasHexPrefix(u) THEN HexRun(Drop(u, 2)) ELSE DigitRun(u)
      v == IF HasHexPrefix(u) THEN HexValue(Take(Drop(u, 2), n))
           ELSE DigitsValue(Take(u, n))
  IN IF n = 0 THEN [nan |-> TRUE, val |-> 0]
     ELSE [nan |-> FALSE, val |-> IF signed /\ Head(t) = "-" THEN 0 - v ELSE v]

\* the JavaScript idiom  parseInt(x) || 0  (NaN and 0 are falsy)
OrZero(p) == IF p.nan THEN 0 ELSE p.val

\* ------------------------------------------------------------------------
\* Record Parser
\* ------------------------------------------------------------------------
\* variant: the draws are read from the last segment
parseRecord_LastAsDraws(record) ==
  IF record = <<>> THEN [wins |-> 0, losses |-> 0, draws |-> 0]
  ELSE LET parts == Split(record, "-")
       IN [wins   |-> OrZero(parseInt(parts[1])),
           losses |-> IF Len(parts) >= 2 THEN OrZero(parseInt(parts[2])) ELSE 0,
           draws  |-> IF Len(parts) >= 3 THEN OrZero(parseInt(parts[Len(parts)])) ELSE 0]

parseRecord(record) ==
  IF record = <<>> THEN [wins |-> 0, losses |-> 0, draws |-> 0]
  ELSE LET parts == Split(record, "-")
       IN [wins   |-> OrZero(parseInt(parts[1])),
           losses |-> IF Len(parts) >= 2 THEN OrZero(parseInt(parts[2])) ELSE 0,
           draws  |-> IF Len(parts) >= 3 THEN OrZero(parseInt(parts[3])) ELSE 0]

\* ------------------------------------------------------------------------
\* Result Classifier
\* ------------------------------------------------------------------------
TxtKOTKO == <<"K", "O", "/", "T", "K", "O">>
TxtDec == <<"D", "e", "c">>
TxtSplit == <<"S", "p", "l", "i", "t">>
TxtUnanimous == <<"U", "n", "a", "n", "i", "m", "o", "u", "s">>

\* variant: the expression asks for white space before "R", \s+ for \s*
MatchAt_SpaceRequired(s, i, c, r) ==
  /\ i < c /\ \A j \in i..(c - 1) : IsDigit(s[j])
  /\ s[c] = ":"
  /\ \E e \in (c + 1)..(r - 2) :
       /\ \A j \in (c + 1)..e : IsDigit(s[j])
       /\ \A j \in (e + 1)..(r - 1) : IsSpace(s[j])
  /\ s[r] = "R"
  /\ r < Len(s) /\ IsDigit(s[r + 1])

\* the regular expression /(\d+):(\d+)\s*R(\d+)/ matches s from position i
\* with its ":" at position c and its "R" at position r
MatchAt(s, i, c, r) ==
  /\ i < c /\ \A j \in i..(c - 1) : IsDigit(s[j])
  /\ s[c] = ":"
  /\ \E e \in (c + 1)..(r - 1) :
       /\ \A j \in (c + 1)..e : IsDigit(s[j])
       /\ \A j \in (e + 1)..(r - 1) : IsSpace(s[j])
  /\ s[r] = "R"
  /\ r < Len(s) /\ IsDigit(s[r + 1])

\* String.prototype.match: the leftmost match and its three captured groups
\* (each \d+ takes the longest run of digits), or ok = FALSE
Match(s) ==
  LET found == {m \in (1..Len(s)) \X {c \in 1..Len(s) : s[c] = ":"}
                                  \X {r \in 1..Len(s) : s[r] = "R"} :
                  MatchAt(s, m[1], m[2], m[3])}
  IN IF found = {}
     THEN [ok |-> FALSE, g1 |-> <<>>, g2 |-> <<>>, g3 |-> <<>>]
     ELSE LET m == CHOOSE x \in found : \A y \in found : x[1] <= y[1]
          IN [ok |-> TRUE,
              g1 |-> SubSeq(s, m[1], m[2] - 1),
              g2 |-> Take(Drop(s, m[2]), DigitRun(Drop(s, m[2]))),
              g3 |-> Take(Drop(s, m[3]), DigitRun(Drop(s, m[3])))]

\* variant: "Unanimous" is looked for before "Split"
parseResultString_UnanimousFirst(resultString) ==
  IF resultString = <<>> THEN [betType |-> "Decision", round |-> 0, time |-> <<>>]
  ELSE IF Includes(resultString, TxtKOTKO)
  THEN LET m == Match(resultString)
       IN IF m.ok
          THEN [betType |-> "KO/TKO", round |-> OrZero(parseInt(m.g3)),
                time |-> m.g1 \o <<":">> \o m.g2]
          ELSE [betType |-> "KO/TKO", round |-> 0, time |-> <<>>]
  ELSE IF Includes(resultString, TxtDec)
  THEN IF Includes(resultString, TxtUnanimous)
       THEN [betType |-> "Unanimous Decision", round |-> 0, time |-> <<>>]
       ELSE IF Includes(resultString, TxtSplit)
       THEN [betType |-> "Split Decision", round |-> 0, time |-> <<>>]
       ELSE [betType |-> "Decision", round |-> 0, time |-> <<>>]
  ELSE [betType |-> "Decision", round |-> 0, time |-> <<>>]

parseResultString(resultString) ==
  IF resultString = <<>> THEN [betType |-> "Decision", round |-> 0, time |-> <<>>]
  ELSE IF Includes(resultString, TxtKOTKO)
  THEN LET m == Match(resultString)
       IN IF m.ok
          THEN [betType |-> "KO/TKO", round |-> OrZero(parseInt(m.g3)),
                time |-> m.g1 \o <<":">> \o m.g2]
          ELSE [betType |-> "KO/TKO", round |-> 0, time |-> <<>>]
  ELSE IF Includes(resultString, TxtDec)
  THEN IF Includes(resultString, TxtSplit)
       THEN [betType |-> "Split Decision", round |-> 0, time |-> <<>>]
       ELSE IF Includes(resultString, TxtUnanimous)
       THEN [betType |-> "Unanimous Decision", round |-> 0, time |-> <<>>]
       ELSE [betType |-> "Decision", round |-> 0, time |-> <<>>]
  ELSE [betType |-> "Decision", round |-> 0, time |-> <<>>]

\* ------------------------------------------------------------------------
\* Display of a tally and the calendar (template literals, Date)
\* ------------------------------------------------------------------------
\* String(n) of a non-negative integer below 10^9
FormatInt(n) ==
  LET k == CHOOSE d \in 1..9 : n < 10 ^ d /\ (d = 1 \/ n >= 10 ^ (d - 1))
  IN [i \in 1..k |-> DigitChars[((n \div (10 ^ (k - i))) % 10) + 1]]

\* the template  `${f.wins}-${f.losses}-${f.draws}`
FormatRecord(f) ==
  FormatInt(f.wins) \o <<"-">> \o FormatInt(f.losses) \o <<"-">> \o FormatInt(f.draws)

UpperLetters ==
  {"A", "B", "C", "D", "E", "F", "G", "H", "I", "J", "K", "L", "M",
   "N", "O", "P", "Q", "R", "S", "T", "U", "V", "W", "X", "Y", "Z"}

\* the first three letters of the month names, January first
MonthPrefixes ==
  << <<"J", "A", "N">>, <<"F", "E", "B">>, <<"M", "A", "R">>, <<"A", "P", "R">>,
     <<"M", "A", "Y">>, <<"J", "U", "N">>, <<"J", "U", "L">>, <<"A", "U", "G">>,
     <<"S", "E", "P">>, <<"O", "C", "T">>, <<"N", "O", "V">>, <<"D", "E", "C">> >>

NoDate == [ok |-> FALSE, utc |-> FALSE, y |-> 0, m |-> 0, d |-> 0]

\* Date.parse of the date-only ISO form YYYY-MM-DD, which is read as UTC
IsoDate(s) ==
  IF /\ Len(s) = 10
     /\ \A j \in {1, 2, 3, 4, 6, 7, 9, 10} : IsDigit(s[j])
     /\ s[5] = "-" /\ s[8] = "-"
     /\ DigitsValue(SubSeq(s, 6, 7)) \in 1..12
     /\ DigitsValue(SubSeq(s, 9, 10)) \in 1..31
  THEN [ok |-> TRUE, utc |-> TRUE, y |-> DigitsValue(SubSeq(s, 1, 4)),
        m |-> DigitsValue(SubSeq(s, 6, 7)), d |-> DigitsValue(SubSeq(s, 9, 10))]
  ELSE NoDate

\* Date.parse of the form  MONTH D, YYYY  (upper-case month name, as in the
\* scraped feed), which is read as local time
LegacyDate(s) ==
  LET n == Len(s)
      \* <<last letter of the month word, position of the comma>>
      found == {p \in (3..n) \X (1..n) :
                  /\ \A j \in 1..p[1] : s[j] \in UpperLetters
                  /\ \E k \in 1..12 : MonthPrefixes[k] = SubSeq(s, 1, 3)
                  /\ p[1] + 1 < p[2] /\ p[2] <= p[1] + 4 /\ p[2] + 5 = n
                  /\ s[p[1] + 1] = " " /\ s[p[2]] = "," /\ s[p[2] + 1] = " "
                  /\ \A j \in (p[1] + 2)..(p[2] - 1) : IsDigit(s[j])
                  /\ \A j \in (p[2] + 2)..n : IsDigit(s[j])
                  /\ DigitsValue(SubSeq(s, p[1] + 2, p[2] - 1)) \in 1..31}
  IN IF found = {} THEN NoDate
     ELSE LET p == CHOOSE q \in found : TRUE
          IN [ok |-> TRUE, utc |-> FALSE,
              y |-> DigitsValue(SubSeq(s, p[2] + 2, n)),
              m |-> CHOOSE k \in 1..12 : MonthPrefixes[k] = SubSeq(s, 1, 3),
              d |-> DigitsValue(SubSeq(s, p[1] + 2, p[2] - 1))]

\* new Date(text): the calendar date read and whether it is read as UTC;
\* every other text is an Invalid Date (ok = FALSE)
ParseDate(s) == IF IsoDate(s).ok THEN IsoDate(s) ELSE LegacyDate(s)

\* days from 1970-01-01 to the civil date y-m-d (proleptic Gregorian)
DaysFromCivil(y, m, d) ==
  LET y1 == IF m <= 2 THEN y - 1 ELSE y
      era == y1 \div 400
      yoe == y1 - era * 400
      mp == (m + 9) % 12
      doy == (153 * mp + 2) \div 5 + d - 1
      doe == yoe * 365 + yoe \div 4 - yoe \div 100 + doy
  IN era * 146097 + doe - 719468

\* time is counted in hours since 1970-01-01T00:00Z; tz is the offset of
\* local time from UTC in hours at the moment the clock is read
HoursPerDay == 24

\* the instant  new Date(text)  denotes: midnight UTC of an ISO date,
\* local midnight of any other date
DateInstant(p, tz) ==
  HoursPerDay * DaysFromCivil(p.y, p.m, p.d) - (IF p.utc THEN 0 ELSE tz)

\* today = new Date(); today.setHours(0, 0, 0, 0): local midnight of the
\* current local day
StartOfToday(now, tz) == HoursPerDay * ((now + tz) \div HoursPerDay) - tz

\* variant: the test is written  !(eventDate >= today), true of an Invalid Date
IsConcluded_NotUpcoming(date, now, tz) ==
  ~(ParseDate(date).ok /\ DateInstant(ParseDate(date), tz) >= StartOfToday(now, tz))

\* eventDate < today; a comparison with an Invalid Date is false
IsConcluded(date, now, tz) ==
  ParseDate(date).ok /\ DateInstant(ParseDate(date), tz) < StartOfToday(now, tz)

\* ------------------------------------------------------------------------
\* The relational store: tables and the statements the services issue
\* ------------------------------------------------------------------------
VARIABLES
  fighters,      \* fighters table: sequence of rows, a row's id is its index
  events,        \* events table: set of rows
  bouts,         \* bouts table: set of rows
  bout_results,  \* bout_results table: set of rows, primary key bout_id
  bet_types,     \* bet_types table: sequence of rows, id (SERIAL) is the index
  user_bets,     \* user_bets table: set of rows
  nextEventId,   \* next identifier the store generates for an event
  nextBoutId,    \* next identifier the store generates for a bout
  rejections,    \* how many statements the store has rejected for no cause
  req,           \* per request slot: the request being served and its locals
  bet,           \* per request slot: the betting-ledger request being served
  lastPlaced     \* history: per bet key, the value of the last bet placed

vars == <<fighters, events, bouts, bout_results, bet_types, user_bets,
          nextEventId, nextBoutId, rejections, req, bet, lastPlaced>>

storeVars == <<fighters, events, bouts, bout_results, bet_types,
               nextEventId, nextBoutId>>

Slots == {"r1", "r2"}

\* a store call may be rejected for a cause outside the program (connection,
\* time-out, policy); the model injects at most MaxRejections of these
FailChoices == IF rejections < MaxRejections THEN BOOLEAN ELSE {FALSE}

Injected(fail) == rejections' = IF fail THEN rejections + 1 ELSE rejections

NoFighter == [id |-> 0, name |-> <<>>, wins |-> 0, losses |-> 0, draws |-> 0]

\* the row of table fs with identifier id, as the store returns it
FighterRow(fs, id) ==
  [id |-> id, name |-> fs[id].name,
   wins |-> fs[id].wins, losses |-> fs[id].losses, draws |-> fs[id].draws]

\* variant: of several rows the first is taken, as with .limit(1)
MaybeSingleError_FirstRow(n) == FALSE

\* .maybeSingle() on a result of n rows: more than one row is an error
MaybeSingleError(n) == n > 1

\* variant: the lookup never matches a stored name
FighterLookup_Miss(fs, name, fail) ==
  [error |-> fail, data |-> NoFighter]

\* .from('fighters').select('*').eq('name', name).maybeSingle()
FighterLookup(fs, name, fail) ==
  LET ids == {i \in 1..Len(fs) : fs[i].name = name}
  IN IF fail \/ MaybeSingleError(Cardinality(ids))
     THEN [error |-> TRUE, data |-> NoFighter]
     ELSE IF ids = {} THEN [error |-> FALSE, data |-> NoFighter]
     ELSE [error |-> FALSE, data |-> FighterRow(fs, CHOOSE i \in ids : TRUE)]

\* variant: the parsed record is added to the stored tally
UpdatedTally_Increment(old, recordData) ==
  [name |-> old.name, wins |-> old.wins + recordData.wins,
   losses |-> old.losses + recordData.losses, draws |-> old.draws + recordData.draws]

\* the tally the update statement stores over the old row
UpdatedTally(old, recordData) ==
  [name |-> old.name, wins |-> recordData.wins,
   losses |-> recordData.losses, draws |-> recordData.draws]

\* variant: a rejected update makes createOrUpdateFighter return null
UpdateErrorResult_Null(existingFighter) == NoFighter

\* what createOrUpdateFighter returns when the store rejects the update
UpdateErrorResult(existingFighter) == existingFighter

\* variant: the rejected update has stored the tally all the same
AfterUpdateError_Applied(fs, existingFighter, recordData) ==
  IF existingFighter.id \in 1..Len(fs)
  THEN [fs EXCEPT ![existingFighter.id] = UpdatedTally(@, recordData)]
  ELSE fs

\* the fighters table after the store rejected the update: no row is written
AfterUpdateError(fs, existingFighter, recordData) == fs

\* variant: the update leaves the draws column out
RowUpdated_WithoutDraws(fs, id, recordData) ==
  [fs EXCEPT ![id] = [@ EXCEPT !.wins = recordData.wins, !.losses = recordData.losses]]

\* .update({wins, losses, draws, updated_at}).eq('id', id): one statement
\* stores the three columns of the row together
RowUpdated(fs, id, recordData) == [fs EXCEPT ![id] = UpdatedTally(@, recordData)]

\* what createOrUpdateFighter returns when the store rejects the insert
InsertErrorResult(name, recordData) == NoFighter

\* variant: the fighters table with a unique constraint on name
FighterInsertAccepted_UniqueName(fs, name) ==
  Len(fs) < MaxFighters /\ \A i \in 1..Len(fs) : fs[i].name # name

\* the fighters table accepts any new row: it has no constraint on name
FighterInsertAccepted(fs, name) == Len(fs) < MaxFighters

\* the second store call of createOrUpdateFighter: update of the row found,
\* or insert of a new row; the new table and the value returned
FighterWrite(fs, existingFighter, name, record, fail) ==
  LET recordData == parseRecord(record)
  IN IF existingFighter.id # 0
     THEN IF fail \/ existingFighter.id > Len(fs)
          THEN [fighters |-> AfterUpdateError(fs, existingFighter, recordData),
                ret |-> UpdateErrorResult(existingFighter),
                how |-> "updateRejected"]
          ELSE LET fs2 == RowUpdated(fs, existingFighter.id, recordData)
               IN [fighters |-> fs2, ret |-> FighterRow(fs2, existingFighter.id),
                   how |-> "updated"]
     ELSE IF fail \/ ~FighterInsertAccepted(fs, name)
          THEN [fighters |-> fs, ret |-> InsertErrorResult(name, recordData),
                how |-> "insertRejected"]
          ELSE LET fs2 == Append(fs, [name |-> name, wins |-> recordData.wins,
                                      losses |-> recordData.losses,
                                      draws |-> recordData.draws])
               IN [fighters |-> fs2, ret |-> FighterRow(fs2, Len(fs2)),
                   how |-> "inserted"]

\* foreign keys of the bouts table (events.id, fighters.id twice)
BoutForeignKeysHold(evs, fs, b) ==
  /\ \E e \in evs : e.id = b.event_id
  /\ b.fighter_left_id \in 1..Len(fs)
  /\ b.fighter_right_id \in 1..Len(fs)

\* variant: bout_results.bout_id without ON DELETE CASCADE
CascadeResults_None(results, gone) == results

\* ON DELETE CASCADE from bouts to bout_results: the results left after the
\* bouts in gone have been deleted
CascadeResults(results, gone) ==
  {r \in results : ~\E b \in gone : b.id = r.bout_id}

\* variant: bout_results without its primary key
ResultInsertAccepted_NoPrimaryKey(results, bs, fs, bts, row) ==
  /\ \E b \in bs : b.id = row.bout_id
  /\ row.winner_id \in 1..Len(fs)
  /\ row.bet_type_id \in 1..Len(bts)

\* primary key and foreign keys of the bout_results table
ResultInsertAccepted(results, bs, fs, bts, row) ==
  /\ ~\E r \in results : r.bout_id = row.bout_id
  /\ \E b \in bs : b.id = row.bout_id
  /\ row.winner_id \in 1..Len(fs)
  /\ row.bet_type_id \in 1..Len(bts)

\* ------------------------------------------------------------------------
\* Inputs the requests are drawn from
\* ------------------------------------------------------------------------
NameA == <<"A">>
NameB == <<"B">>
NameC == <<"C">>
FighterNames == {NameA, NameB}

RecEmpty == <<>>
Rec12 == <<"1", "-", "2">>
Rec201 == <<"2", "-", "0", "-", "1">>
Records == {RecEmpty, Rec12, Rec201}

EventNames == {"E1"}
\* a date in the form of the scraped feed and the same day in ISO form
DateFeed == <<"J", "U", "N", "E", " ", "7", ",", " ", "2", "0", "2", "5">>
DateIso == <<"2", "0", "2", "5", "-", "0", "6", "-", "0", "7">>
EventDates == {DateFeed, DateIso}
EventLocations == {"Newark"}

BoutInput(l, lr, r, rr) ==
  [left_fighter |-> l, left_record |-> lr, right_fighter |-> r, right_record |-> rr]

\* record strings with hyphens and signs in unusual places: "-5-3", "5--3",
\* "-" and "+5-0xA-4x"
RecLeadingHyphen == <<"-", "5", "-", "3">>
RecDoubleHyphen == <<"5", "-", "-", "3">>
RecHyphen == <<"-">>
RecSigned == <<"+", "5", "-", "0", "x", "A", "-", "4", "x">>
SignedRecords == {RecLeadingHyphen, RecDoubleHyphen, RecHyphen, RecSigned}
SignedBoutLists ==
  { <<BoutInput(NameA, RecLeadingHyphen, NameB, RecDoubleHyphen)>>,
    <<BoutInput(NameB, RecSigned, NameA, RecHyphen)>> }

\* the bouts lists of the createEvent requests
BoutLists ==
  { <<>>,
    <<BoutInput(NameA, Rec12, NameB, RecEmpty)>>,
    <<BoutInput(NameA, Rec201, NameB, Rec12), BoutInput(NameA, Rec12, NameB, Rec12)>> }

ResKO == <<"K", "O", "/", "T", "K", "O", ",", " ", "0", ":", "5", "1", " ", "R", "2">>
ResSplit == <<"S", "p", "l", "i", "t", " ", "D", "e", "c">>

ResultInput(w, l, r) == [winner |-> w, loser |-> l, result |-> r]

\* the bout_results lists of the POST /api/event-results requests; the last
\* one has a bout result without a loser
ResultLists ==
  { <<ResultInput(<<"A", " ">>, <<"B", "\n", "L">>, ResKO)>>,
    <<ResultInput(NameA, NameB, ResKO), ResultInput(NameA, NameB, ResSplit)>>,
    <<ResultInput(NameA, NameB, ResKO), ResultInput(NameB, NameA, ResSplit)>>,
    <<ResultInput(NameA, NameB, ResKO), ResultInput(NameB, <<>>, ResSplit)>> }

\* the bouts list and the bout_results list of two requests that overlap
ConcurrentBoutLists == { <<BoutInput(NameA, Rec12, NameB, RecEmpty)>> }
ConcurrentResultLists == { <<ResultInput(NameA, NameB, ResKO)>> }

\* the end-to-end scenario: one bout, "19-4" against "18-2", then its result
Rec194 == <<"1", "9", "-", "4">>
Rec182 == <<"1", "8", "-", "2">>
ScenarioBouts == <<BoutInput(NameA, Rec194, NameB, Rec182)>>
ScenarioResults == {<<ResultInput(NameA, NameB, ResKO)>>, <<ResultInput(NameA, NameB, ResSplit)>>}

\* the names and the description of the POST /api/bet-types requests; "" is a
\* body without a name
BetTypeNames == {"", "KO/TKO"}
BetTypeDescription == "Win by knockout"

\* the partial events of the updateEvent requests; "" is a field not supplied
Partials == { [name |-> "E2", location |-> ""] }

\* the readings of the clock: an instant and the offset of local time
ClockInstants ==
  { HoursPerDay * DaysFromCivil(2025, 6, 7) + 2,
    HoursPerDay * DaysFromCivil(2025, 6, 7) + 12,
    HoursPerDay * DaysFromCivil(2025, 6, 8) + 12 }
ClockOffsets == {0 - 5, 0, 2}

\* ------------------------------------------------------------------------
\* Requests
\* ------------------------------------------------------------------------
\* one bout of createEvent / one bout result of addEventResults / one direct
\* call: the resolution of its fighter(s) through createOrUpdateFighter
NewTask == [pc |-> "selL", existing |-> NoFighter, left |-> NoFighter, right |-> NoFighter]

IdleReq ==
  [kind |-> "idle", pc |-> "idle",
   fname |-> <<>>, record |-> <<>>,
   ename |-> "", date |-> <<>>, location |-> "",
   bouts |-> <<>>, results |-> <<>>,
   id |-> 0, partial |-> [name |-> "", location |-> ""],
   btName |-> "", btDescription |-> "",
   text |-> <<>>, parsed |-> [betType |-> "", round |-> 0, time |-> <<>>],
   tally |-> [wins |-> 0, losses |-> 0, draws |-> 0],
   configured |-> 0, port |-> 0, ports |-> <<>>, code |-> "",
   eventId |-> 0, i |-> 0, boutId |-> 0, betTypeId |-> 0,
   tasks |-> <<>>,
   ret |-> "pending", retId |-> 0, retF |-> NoFighter, status |-> 0,
   existing |-> NoFighter,
   view |-> <<>>, found |-> {}, clock |-> [now |-> 0, tz |-> 0], misses |-> 0,
   outcome |-> <<>>, resolved |-> 0, inserted |-> 0, deleted |-> 0, cascaded |-> 0,
   prev |-> [kind |-> "none", fname |-> <<>>, record |-> <<>>, retId |-> 0, how |-> ""]]

\* what a caller that calls again remembers of the call that just returned
CallOf(r) ==
  IF r.kind = "fighter" /\ r.pc = "done"
  THEN [kind |-> r.kind, fname |-> r.fname, record |-> r.record, retId |-> r.retId,
        how |-> r.outcome[1]]
  ELSE IdleReq.prev

\* String.prototype.replace(/\nL$/, '')
\* variant: only the letter is removed, the line break stays
StripLoserSuffix_LetterOnly(s) ==
  IF Len(s) >= 2 /\ s[Len(s) - 1] = "\n" /\ s[Len(s)] = "L"
  THEN SubSeq(s, 1, Len(s) - 1) ELSE s

StripLoserSuffix(s) ==
  IF Len(s) >= 2 /\ s[Len(s) - 1] = "\n" /\ s[Len(s)] = "L"
  THEN SubSeq(s, 1, Len(s) - 2) ELSE s

\* the (name, record) arguments of the createOrUpdateFighter call that task t
\* of request r makes for its left or right side
CallArgs(r, t, side) ==
  IF r.kind = "createEvent"
  THEN IF side = "L"
       THEN [name |-> r.bouts[t].left_fighter, record |-> r.bouts[t].left_record]
       ELSE [name |-> r.bouts[t].right_fighter, record |-> r.bouts[t].right_record]
  ELSE IF r.kind = "addEventResults"
  THEN IF side = "L"
       THEN [name |-> Trim(r.results[r.i].winner), record |-> <<>>]
       ELSE [name |-> StripLoserSuffix(Trim(r.results[r.i].loser)), record |-> <<>>]
  ELSE [name |-> r.fname, record |-> r.record]

SideOf(pc) == IF pc \in {"selL", "wrL"} THEN "L" ELSE "R"

\* createEvent: the bouts whose two fighters resolved
ResolvedTasks(tasks) ==
  {t \in 1..Len(tasks) : tasks[t].left.id # 0 /\ tasks[t].right.id # 0}

\* addEventResults: the loop moves to the next bout result (or returns true)
\* after bout result r.i ended with outcome o
NextResult(r, o) ==
  LET r1 == [r EXCEPT !.outcome = [@ EXCEPT ![r.i] = o]]
  IN IF r.i >= Len(r.results)
     THEN [r1 EXCEPT !.pc = "done", !.ret = "true", !.status = 201]
     ELSE [r1 EXCEPT !.pc = "tasks", !.i = r.i + 1, !.tasks = <<NewTask>>,
                     !.boutId = 0, !.betTypeId = 0]

\* variant: a failed bout result aborts the batch (return false)
OnBoutResultFailure_Abort(r, o) ==
  [r EXCEPT !.outcome = [@ EXCEPT ![r.i] = o],
            !.pc = "done", !.ret = "false", !.status = 500]

\* what addEventResults does when one step of a bout result fails
OnBoutResultFailure(r, o) == NextResult(r, o)

\* the request after the createOrUpdateFighter call of task t returned f,
\* how telling which path of the call was taken
Resume(r, t, f, how) ==
  LET tk == r.tasks[t]
  IN IF r.kind = "fighter"
     THEN [r EXCEPT !.pc = "done", !.ret = IF f.id = 0 THEN "null" ELSE "value",
                    !.retId = f.id, !.retF = f, !.existing = tk.existing,
                    !.outcome = <<how>>]
     ELSE IF SideOf(tk.pc) = "L"
     THEN [r EXCEPT !.tasks = [@ EXCEPT ![t] =
             [tk EXCEPT !.pc = "selR", !.left = f, !.existing = NoFighter]]]
     ELSE LET ts == [r.tasks EXCEPT ![t] =
                       [tk EXCEPT !.pc = "done", !.right = f, !.existing = NoFighter]]
              r1 == [r EXCEPT !.tasks = ts]
          IN IF r.kind = "createEvent"
             THEN IF \E u \in 1..Len(ts) : ts[u].pc # "done" THEN r1
                  ELSE IF ResolvedTasks(ts) # {} THEN [r1 EXCEPT !.pc = "insBouts"]
                  ELSE [r1 EXCEPT !.pc = "done", !.ret = "value",
                                  !.retId = r.eventId, !.status = 201,
                                  !.outcome = <<"allDropped">>]
             ELSE IF ts[t].left.id = 0 \/ f.id = 0
                  THEN OnBoutResultFailure(r1, "fighter")
                  ELSE [r1 EXCEPT !.pc = "boutLookup"]

\* the locals of a request die when it returns; of a createEvent it is
\* remembered how many of its bouts had both fighters resolved
Settle(r) ==
  IF r.pc = "done"
  THEN [r EXCEPT !.tasks = <<>>, !.i = 0, !.boutId = 0, !.betTypeId = 0,
                 !.resolved = IF r.kind = "createEvent"
                              THEN Cardinality(ResolvedTasks(r.tasks)) ELSE 0]
  ELSE r

\* the request of slot s moves on to r
Finish(s, r) == req' = [req EXCEPT ![s] = Settle(r)]

\* requests are served one at a time: a request starts when no other is in
\* flight and the previous one has been answered
NoneInFlight == \A s \in Slots : req[s].pc = "idle"

Begin(s, r) ==
  /\ req' = [req EXCEPT ![s] = r]
  /\ UNCHANGED <<storeVars, rejections, user_bets, bet, lastPlaced>>

\* the answer of a completed request is delivered and its slot is free again
Return(s) ==
  /\ req[s].pc = "done"
  /\ req' = [req EXCEPT ![s] = IdleReq]
  /\ UNCHANGED <<storeVars, rejections, user_bets, bet, lastPlaced>>

\* ---- createOrUpdateFighter -----------------------------------------------
\* a direct call; the caller may call again right after a call returned
\* a createOrUpdateFighter call with one of the record strings of records
createOrUpdateFighter_Call(s, records) ==
  /\ s = "r1"
  /\ \A o \in Slots \ {s} : req[o].pc = "idle"
  /\ req[s].pc = "idle" \/ (req[s].pc = "done" /\ req[s].kind = "fighter")
  /\ \E name \in FighterNames, record \in records :
       Begin(s, [IdleReq EXCEPT !.kind = "fighter", !.pc = "tasks",
                                !.fname = name, !.record = record,
                                !.tasks = <<NewTask>>, !.prev = CallOf(req[s])])

createOrUpdateFighter_Start(s) == createOrUpdateFighter_Call(s, Records)

\* a direct call for name made while other calls may be in flight
createOrUpdateFighter_Enter(s, name, records) ==
  /\ req[s].pc = "idle"
  /\ \E record \in records :
       Begin(s, [IdleReq EXCEPT !.kind = "fighter", !.pc = "tasks",
                                !.fname = name, !.record = record,
                                !.tasks = <<NewTask>>])

\* the lookup by name
createOrUpdateFighter_Lookup(s) ==
  /\ req[s].pc = "tasks"
  /\ \E t \in 1..Len(req[s].tasks), fail \in FailChoices :
       /\ Injected(fail)
       /\ req[s].tasks[t].pc \in {"selL", "selR"}
       /\ LET r == req[s]
              a == CallArgs(r, t, SideOf(r.tasks[t].pc))
              found == FighterLookup(fighters, a.name, fail)
          IN IF found.error
             THEN Finish(s, Resume(r, t, NoFighter, "lookupError"))
             ELSE Finish(s, [r EXCEPT !.tasks = [@ EXCEPT ![t] =
                    [@ EXCEPT !.pc = IF SideOf(@) = "L" THEN "wrL" ELSE "wrR",
                              !.existing = found.data]]])
  /\ UNCHANGED <<storeVars, user_bets, bet, lastPlaced>>

\* the update of the row found, or the insert of a new row
createOrUpdateFighter_Write(s) ==
  /\ req[s].pc = "tasks"
  /\ \E t \in 1..Len(req[s].tasks), fail \in FailChoices :
       /\ Injected(fail)
       /\ req[s].tasks[t].pc \in {"wrL", "wrR"}
       /\ LET r == req[s]
              a == CallArgs(r, t, SideOf(r.tasks[t].pc))
              w == FighterWrite(fighters, r.tasks[t].existing, a.name, a.record, fail)
          IN /\ fighters' = w.fighters
             /\ Finish(s, Resume(r, t, w.ret, w.how))
  /\ UNCHANGED <<events, bouts, bout_results, bet_types, nextEventId, nextBoutId,
                 user_bets, bet, lastPlaced>>

\* ---- createEvent -----------------------------------------------------------
\* variant: the events table with a unique constraint on name, the insert
\* leaving the stored row of that name in place
InsertEventRow_UniqueName(evs, nextId, name, date, location) ==
  IF \E e \in evs : e.name = name THEN evs
  ELSE evs \cup {[id |-> nextId, name |-> name, date |-> date, location |-> location]}

\* .from('events').insert(...): the new table and the id generated
InsertEventRow(evs, nextId, name, date, location) ==
  evs \cup {[id |-> nextId, name |-> name, date |-> date, location |-> location]}

\* a createEvent request with one of the bouts lists of lists arrives
createEvent_Accept(s, lists) ==
  /\ req[s].pc = "idle"
  /\ \E name \in EventNames, date \in EventDates, location \in EventLocations,
        bs \in lists :
       Begin(s, [IdleReq EXCEPT !.kind = "createEvent", !.pc = "insEvent",
                                !.ename = name, !.date = date,
                                !.location = location, !.bouts = bs])

\* requests served one at a time
createEvent_Submit(s, lists) ==
  NoneInFlight /\ s = "r1" /\ createEvent_Accept(s, lists)

createEvent_Start(s) == createEvent_Submit(s, BoutLists)

\* the event insert; on success every bout starts resolving its left fighter
createEvent_InsertEvent(s) ==
  /\ req[s].kind = "createEvent" /\ req[s].pc = "insEvent"
  /\ \E fail \in FailChoices :
       /\ Injected(fail)
       /\ LET r == req[s]
          IN IF fail \/ nextEventId > MaxEvents
             THEN /\ Finish(s, [r EXCEPT !.pc = "done", !.ret = "null", !.status = 500,
                                          !.outcome = <<"insertError">>])
                  /\ UNCHANGED <<events, nextEventId>>
             ELSE /\ events' = InsertEventRow(events, nextEventId, r.ename, r.date, r.location)
                  /\ nextEventId' = nextEventId + 1
                  /\ IF Len(r.bouts) > 0
                     THEN Finish(s, [r EXCEPT !.pc = "tasks", !.eventId = nextEventId,
                                              !.tasks = [t \in 1..Len(r.bouts) |-> NewTask]])
                     ELSE Finish(s, [r EXCEPT !.pc = "done", !.ret = "value",
                                              !.eventId = nextEventId,
                                              !.retId = nextEventId, !.status = 201,
                                              !.outcome = <<"noBouts">>])
  /\ UNCHANGED <<fighters, bouts, bout_results, bet_types, nextBoutId,
                 user_bets, bet, lastPlaced>>

\* the bout rows of the bulk insert, numbered from nextId in bout order
RECURSIVE BoutRows(_, _, _, _)
BoutRows(tasks, t, eventId, nextId) ==
  IF t > Len(tasks) THEN {}
  ELSE IF tasks[t].left.id # 0 /\ tasks[t].right.id # 0
  THEN {[id |-> nextId, event_id |-> eventId,
         fighter_left_id |-> tasks[t].left.id,
         fighter_right_id |-> tasks[t].right.id]}
       \cup BoutRows(tasks, t + 1, eventId, nextId + 1)
  ELSE BoutRows(tasks, t + 1, eventId, nextId)

\* variant: a rejected bulk insert makes createEvent return null
AfterBoutsError_Null(r) ==
  [r EXCEPT !.pc = "done", !.ret = "null", !.retId = 0, !.status = 500,
            !.outcome = <<"boutsRejected">>]

\* createEvent after the bulk insert was rejected: the error is logged and
\* the event is returned all the same
AfterBoutsError(r) ==
  [r EXCEPT !.pc = "done", !.ret = "value", !.retId = r.eventId, !.status = 201,
            !.outcome = <<"boutsRejected">>]

\* createEvent after the bulk insert of n rows succeeded
AfterBoutsInserted(r, n) ==
  [r EXCEPT !.pc = "done", !.ret = "value", !.retId = r.eventId, !.status = 201,
            !.outcome = <<"boutsInserted">>, !.inserted = n]

\* the bulk insert of the bouts; the event is returned whether it succeeds or not
createEvent_InsertBouts(s) ==
  /\ req[s].kind = "createEvent" /\ req[s].pc = "insBouts"
  /\ \E fail \in FailChoices :
       /\ Injected(fail)
       /\ LET r == req[s]
              rows == BoutRows(r.tasks, 1, r.eventId, nextBoutId)
              n == Cardinality(rows)
          IN IF \/ fail
                \/ nextBoutId + n - 1 > MaxBoutRows
                \/ \E b \in rows : ~BoutForeignKeysHold(events, fighters, b)
             THEN /\ Finish(s, AfterBoutsError(r))
                  /\ UNCHANGED <<bouts, nextBoutId>>
             ELSE /\ bouts' = bouts \cup rows
                  /\ nextBoutId' = nextBoutId + n
                  /\ Finish(s, AfterBoutsInserted(r, n))
  /\ UNCHANGED <<fighters, events, bout_results, bet_types, nextEventId,
                 user_bets, bet, lastPlaced>>

\* ---- addEventResults ------------------------------------------------------
\* an addEventResults request with one of the results lists of lists arrives
\* variant: only the first bout result of the batch is looked at
ValidBoutResults_FirstOnly(rs) ==
  Len(rs) = 0 \/ (rs[1].winner # <<>> /\ rs[1].loser # <<>> /\ rs[1].result # <<>>)

\* the route's loop over bout_results: each has a winner, a loser and a result
ValidBoutResults(rs) ==
  \A k \in 1..Len(rs) :
    rs[k].winner # <<>> /\ rs[k].loser # <<>> /\ rs[k].result # <<>>

\* POST /api/event-results with one of the bout_results lists of lists:
\* validation, then addEventResults is entered
addEventResults_Accept(s, lists) ==
  /\ req[s].pc = "idle"
  /\ \E name \in EventNames, date \in EventDates, location \in EventLocations,
        rs \in lists :
       LET r == [IdleReq EXCEPT !.ename = name, !.date = date, !.location = location,
                                !.results = rs,
                                !.outcome = [k \in 1..Len(rs) |-> "none"]]
       IN IF name = "" \/ date = <<>> \/ location = "" \/ ~ValidBoutResults(rs)
          THEN Begin(s, [r EXCEPT !.kind = "badRequest", !.pc = "done",
                                  !.ret = "none", !.status = 400])
          ELSE Begin(s, [r EXCEPT !.kind = "addEventResults", !.pc = "lookupEvent"])

\* requests served one at a time
addEventResults_Submit(s, lists) ==
  NoneInFlight /\ s = "r1" /\ addEventResults_Accept(s, lists)

addEventResults_Start(s) == addEventResults_Submit(s, ResultLists)

\* the loop over the bout results is entered with the event resolved
EnterLoop(r, eventId) ==
  IF Len(r.results) = 0
  THEN [r EXCEPT !.pc = "done", !.ret = "true", !.status = 201,
                 !.eventId = eventId, !.i = 1]
  ELSE [r EXCEPT !.pc = "tasks", !.eventId = eventId, !.i = 1, !.tasks = <<NewTask>>]

\* variant: the lookup carries no filter on the name
EventsNamed_Any(evs, name) == evs

\* the rows .from('events').select('id').eq('name', name) matches
EventsNamed(evs, name) == {e \in evs : e.name = name}

\* variant: an error of the lookup is taken for 'no event'
OnEventLookupError_NoEvent(r) == [r EXCEPT !.pc = "arInsEvent"]

\* if (eventError) return false, which the route answers with 500
OnEventLookupError(r) == [r EXCEPT !.pc = "done", !.ret = "false", !.status = 500]

\* .from('events').select('id').eq('name', name).maybeSingle()
addEventResults_LookupEvent(s) ==
  /\ req[s].kind = "addEventResults" /\ req[s].pc = "lookupEvent"
  /\ \E fail \in FailChoices :
       /\ Injected(fail)
       /\ LET r == req[s]
              found == EventsNamed(events, r.ename)
          IN IF fail \/ Cardinality(found) > 1
             THEN Finish(s, OnEventLookupError(r))
             ELSE IF found = {}
             THEN Finish(s, [r EXCEPT !.pc = "arInsEvent"])
             ELSE Finish(s, EnterLoop(r, (CHOOSE e \in found : TRUE).id))
  /\ UNCHANGED <<storeVars, user_bets, bet, lastPlaced>>

\* no event of that name: createEvent({name, date, location, bouts: []})
addEventResults_CreateEvent(s) ==
  /\ req[s].kind = "addEventResults" /\ req[s].pc = "arInsEvent"
  /\ \E fail \in FailChoices :
       /\ Injected(fail)
       /\ LET r == req[s]
          IN IF fail \/ nextEventId > MaxEvents
             THEN /\ Finish(s, [r EXCEPT !.pc = "done", !.ret = "false", !.status = 500])
                  /\ UNCHANGED <<events, nextEventId>>
             ELSE /\ events' = InsertEventRow(events, nextEventId, r.ename, r.date, r.location)
                  /\ nextEventId' = nextEventId + 1
                  /\ Finish(s, EnterLoop(r, nextEventId))
  /\ UNCHANGED <<fighters, bouts, bout_results, bet_types, nextBoutId,
                 user_bets, bet, lastPlaced>>

\* variant: the two fighters are matched in either slot
MatchingBouts_EitherSlot(bs, eventId, winnerId, loserId) ==
  {b \in bs : b.event_id = eventId
              /\ {b.fighter_left_id, b.fighter_right_id} = {winnerId, loserId}}

\* the bouts of event eventId with winner as left and loser as right fighter
MatchingBouts(bs, eventId, winnerId, loserId) ==
  {b \in bs : b.event_id = eventId /\ b.fighter_left_id = winnerId
              /\ b.fighter_right_id = loserId}

addEventResults_LookupBout(s) ==
  /\ req[s].kind = "addEventResults" /\ req[s].pc = "boutLookup"
  /\ \E fail \in FailChoices :
       /\ Injected(fail)
       /\ LET r == req[s]
              found == MatchingBouts(bouts, r.eventId, r.tasks[1].left.id, r.tasks[1].right.id)
          IN IF fail \/ Cardinality(found) > 1
             THEN Finish(s, OnBoutResultFailure(r, "boutLookup"))
             ELSE IF found = {}
             THEN Finish(s, [r EXCEPT !.pc = "boutInsert"])
             ELSE Finish(s, [r EXCEPT !.pc = "btLookup",
                                      !.boutId = (CHOOSE b \in found : TRUE).id])
  /\ UNCHANGED <<storeVars, user_bets, bet, lastPlaced>>

addEventResults_InsertBout(s) ==
  /\ req[s].kind = "addEventResults" /\ req[s].pc = "boutInsert"
  /\ \E fail \in FailChoices :
       /\ Injected(fail)
       /\ LET r == req[s]
              row == [id |-> nextBoutId, event_id |-> r.eventId,
                      fighter_left_id |-> r.tasks[1].left.id,
                      fighter_right_id |-> r.tasks[1].right.id]
          IN IF \/ fail
                \/ nextBoutId > MaxBoutRows
                \/ ~BoutForeignKeysHold(events, fighters, row)
             THEN /\ Finish(s, OnBoutResultFailure(r, "boutInsert"))
                  /\ UNCHANGED <<bouts, nextBoutId>>
             ELSE /\ bouts' = bouts \cup {row}
                  /\ nextBoutId' = nextBoutId + 1
                  /\ Finish(s, [r EXCEPT !.pc = "btLookup", !.boutId = nextBoutId])
  /\ UNCHANGED <<fighters, events, bout_results, bet_types, nextEventId,
                 user_bets, bet, lastPlaced>>

\* the ids of the bet_types rows named name
BetTypeIds(bts, name) == {k \in 1..Len(bts) : bts[k].name = name}

addEventResults_LookupBetType(s) ==
  /\ req[s].kind = "addEventResults" /\ req[s].pc = "btLookup"
  /\ \E fail \in FailChoices :
       /\ Injected(fail)
       /\ LET r == req[s]
              resultInfo == parseResultString(r.results[r.i].result)
              found == BetTypeIds(bet_types, resultInfo.betType)
          IN IF fail \/ Cardinality(found) > 1
             THEN Finish(s, OnBoutResultFailure(r, "betTypeLookup"))
             ELSE IF found = {}
             THEN Finish(s, [r EXCEPT !.pc = "btInsert"])
             ELSE Finish(s, [r EXCEPT !.pc = "resInsert",
                                      !.betTypeId = CHOOSE k \in found : TRUE])
  /\ UNCHANGED <<storeVars, user_bets, bet, lastPlaced>>

addEventResults_InsertBetType(s) ==
  /\ req[s].kind = "addEventResults" /\ req[s].pc = "btInsert"
  /\ \E fail \in FailChoices :
       /\ Injected(fail)
       /\ LET r == req[s]
              resultInfo == parseResultString(r.results[r.i].result)
          IN IF fail \/ Len(bet_types) >= MaxBetTypes
             THEN /\ Finish(s, OnBoutResultFailure(r, "betTypeInsert"))
                  /\ UNCHANGED bet_types
             ELSE /\ bet_types' = Append(bet_types,
                                    [name |-> resultInfo.betType,
                                     description |-> "Result type: " \o resultInfo.betType])
                  /\ Finish(s, [r EXCEPT !.pc = "resInsert",
                                         !.betTypeId = Len(bet_types) + 1])
  /\ UNCHANGED <<fighters, events, bouts, bout_results, nextEventId, nextBoutId,
                 user_bets, bet, lastPlaced>>

\* the bout_results row addEventResults writes for bout result r.i
\* variant: the row names the right fighter of the bout as the winner
ResultRow_RightWins(r) ==
  LET resultInfo == parseResultString(r.results[r.i].result)
  IN [bout_id |-> r.boutId, winner_id |-> r.tasks[1].right.id,
      bet_type_id |-> r.betTypeId, round |-> resultInfo.round,
      time |-> resultInfo.time, details |-> r.results[r.i].result]

\* the row of the bout_results insert
ResultRow(r) ==
  LET resultInfo == parseResultString(r.results[r.i].result)
  IN [bout_id |-> r.boutId, winner_id |-> r.tasks[1].left.id,
      bet_type_id |-> r.betTypeId, round |-> resultInfo.round,
      time |-> resultInfo.time, details |-> r.results[r.i].result]

addEventResults_InsertResult(s) ==
  /\ req[s].kind = "addEventResults" /\ req[s].pc = "resInsert"
  /\ \E fail \in FailChoices :
       /\ Injected(fail)
       /\ LET r == req[s]
              row == ResultRow(r)
          IN IF fail
             THEN /\ Finish(s, OnBoutResultFailure(r, "resultInsert"))
                  /\ UNCHANGED bout_results
             ELSE IF ~ResultInsertAccepted(bout_results, bouts, fighters, bet_types, row)
             THEN /\ Finish(s, OnBoutResultFailure(r, "resultRejected"))
                  /\ UNCHANGED bout_results
             ELSE /\ bout_results' = bout_results \cup {row}
                  /\ Finish(s, NextResult(r, "ok"))
  /\ UNCHANGED <<fighters, events, bouts, bet_types, nextEventId, nextBoutId,
                 user_bets, bet, lastPlaced>>

\* ---- getEventById ---------------------------------------------------------
NoResultBlock ==
  [winner_id |-> 0, winner_name |-> <<>>, bet_type |-> "", round |-> 0,
   time |-> <<>>, details |-> <<>>]

\* the rows of bs in the order of their ids
SortedById(bs) ==
  [k \in 1..Cardinality(bs) |->
     CHOOSE b \in bs : Cardinality({c \in bs : c.id < b.id}) = k - 1]

\* the name and the W-L-D text shown for fighter id of table fs
ShownName(fs, id) == IF id \in 1..Len(fs) THEN fs[id].name ELSE <<"U", "n", "k", "n", "o", "w", "n">>
\* variant: the draws are left out of the text
ShownRecord_NoDraws(fs, id) ==
  IF id \in 1..Len(fs)
  THEN FormatInt(fs[id].wins) \o <<"-">> \o FormatInt(fs[id].losses)
  ELSE <<"0", "-", "0">>

ShownRecord(fs, id) == IF id \in 1..Len(fs) THEN FormatRecord(fs[id]) ELSE <<"0", "-", "0", "-", "0">>

\* a bout of the joined query in its display form
ProcessedBout(fs, b) ==
  [id |-> b.id, event_id |-> b.event_id,
   fighter_left_id |-> b.fighter_left_id, fighter_right_id |-> b.fighter_right_id,
   left_fighter |-> ShownName(fs, b.fighter_left_id),
   right_fighter |-> ShownName(fs, b.fighter_right_id),
   left_record |-> ShownRecord(fs, b.fighter_left_id),
   right_record |-> ShownRecord(fs, b.fighter_right_id),
   hasResult |-> FALSE, result |-> NoResultBlock]

\* getBoutResultsByEventId: the results of the bouts of event id joined
\* with the winner and the bet type
BoutResultsOfEvent(bs, results, fs, bts, id) ==
  {[bout_id |-> r.bout_id, winner_id |-> r.winner_id,
    winner_name |-> ShownName(fs, r.winner_id),
    bet_type |-> IF r.bet_type_id \in 1..Len(bts) THEN bts[r.bet_type_id].name
                 ELSE "Unknown",
    round |-> r.round, time |-> r.time, details |-> r.details] :
     r \in {x \in results : \E b \in bs : b.event_id = id /\ b.id = x.bout_id}}

\* variant: the result of a bout is not attached to it
UpdatedBout_NoResult(fs, found, v, missL, missR) ==
  [v EXCEPT !.left_record = ShownRecord(fs, v.fighter_left_id),
            !.right_record = ShownRecord(fs, v.fighter_right_id)]

\* the bout with its records read again (0-0-0 for a fighter whose read
\* failed) and the result block of its result, if it has one
UpdatedBout(fs, found, v, missL, missR) ==
  LET rs == {r \in found : r.bout_id = v.id}
      u == [v EXCEPT !.left_record = IF missL THEN <<"0", "-", "0", "-", "0">>
                                     ELSE ShownRecord(fs, v.fighter_left_id),
                     !.right_record = IF missR THEN <<"0", "-", "0", "-", "0">>
                                      ELSE ShownRecord(fs, v.fighter_right_id)]
  IN IF rs = {} THEN u
     ELSE LET r == CHOOSE x \in rs : TRUE
          IN [u EXCEPT !.hasResult = TRUE,
                       !.result = [winner_id |-> r.winner_id,
                                   winner_name |-> r.winner_name,
                                   bet_type |-> r.bet_type, round |-> r.round,
                                   time |-> r.time, details |-> r.details]]

getEventById_Start(s) ==
  /\ NoneInFlight /\ s = "r1"
  /\ \E id \in 1..MaxEvents :
       Begin(s, [IdleReq EXCEPT !.kind = "getEventById", !.pc = "getEvent", !.id = id])

\* .from('events').select('*').eq('id', id).single()
getEventById_LookupEvent(s) ==
  /\ req[s].kind = "getEventById" /\ req[s].pc = "getEvent"
  /\ \E fail \in FailChoices :
       /\ Injected(fail)
       /\ LET r == req[s]
              found == {e \in events : e.id = r.id}
          IN IF fail \/ found = {}
             THEN Finish(s, [r EXCEPT !.pc = "done", !.ret = "null", !.status = 404,
                                      !.misses = IF fail THEN 1 ELSE 0])
             ELSE LET e == CHOOSE x \in found : TRUE
                  IN Finish(s, [r EXCEPT !.pc = "getBouts", !.eventId = e.id,
                                         !.ename = e.name, !.date = e.date,
                                         !.location = e.location])
  /\ UNCHANGED <<storeVars, user_bets, bet, lastPlaced>>

\* the joined query of the bouts, then the clock is read: an event that is
\* not in the past is returned as it is
getEventById_LoadBouts(s) ==
  /\ req[s].kind = "getEventById" /\ req[s].pc = "getBouts"
  /\ \E fail \in FailChoices, now \in ClockInstants, tz \in ClockOffsets :
       /\ Injected(fail)
       /\ LET r == req[s]
              mine == SortedById({b \in bouts : b.event_id = r.id})
              r1 == [r EXCEPT !.view = IF fail THEN <<>>
                                       ELSE [k \in 1..Len(mine) |->
                                               ProcessedBout(fighters, mine[k])],
                              !.misses = IF fail THEN 1 ELSE 0,
                              !.clock = [now |-> now, tz |-> tz]]
          IN IF IsConcluded(r.date, now, tz)
             THEN Finish(s, [r1 EXCEPT !.pc = "getResults"])
             ELSE Finish(s, [r1 EXCEPT !.pc = "done", !.ret = "value",
                                       !.retId = r.id, !.status = 200])
  /\ UNCHANGED <<storeVars, user_bets, bet, lastPlaced>>

\* getBoutResultsByEventId (either of its two queries may be rejected, which
\* gives no results); without results the event is returned as it is
getEventById_LoadResults(s) ==
  /\ req[s].kind = "getEventById" /\ req[s].pc = "getResults"
  /\ \E fail \in FailChoices :
       /\ Injected(fail)
       /\ LET r == req[s]
              boutResults == IF fail THEN {}
                             ELSE BoutResultsOfEvent(bouts, bout_results, fighters,
                                                     bet_types, r.id)
              r1 == [r EXCEPT !.misses = IF fail THEN @ + 1 ELSE @]
          IN IF boutResults = {} \/ r.view = <<>>
             THEN Finish(s, [r1 EXCEPT !.pc = "done", !.ret = "value",
                                       !.retId = r.id, !.status = 200])
             ELSE Finish(s, [r1 EXCEPT !.pc = "getRecords", !.found = boutResults])
  /\ UNCHANGED <<storeVars, user_bets, bet, lastPlaced>>

\* every bout reads its two fighters again (getFighterById, at most one of
\* the reads is rejected) and takes the result block of its result
getEventById_RefreshRecords(s) ==
  /\ req[s].kind = "getEventById" /\ req[s].pc = "getRecords"
  /\ \E fail \in FailChoices, k \in 1..Len(req[s].view), side \in {"L", "R"} :
       /\ Injected(fail)
       /\ fail \/ (k = 1 /\ side = "L")
       /\ LET r == req[s]
          IN Finish(s, [r EXCEPT !.pc = "done", !.ret = "value", !.retId = r.id,
                                 !.status = 200, !.found = {},
                                 !.misses = IF fail THEN @ + 1 ELSE @,
                                 !.view = [j \in 1..Len(r.view) |->
                                   UpdatedBout(fighters, r.found, r.view[j],
                                               fail /\ j = k /\ side = "L",
                                               fail /\ j = k /\ side = "R")]])
  /\ UNCHANGED <<storeVars, user_bets, bet, lastPlaced>>

\* ---- updateEvent -----------------------------------------------------------
\* the row after  update({...eventData, updated_at})
\* variant: the update statement writes every field of the request, also the
\* ones it does not supply
MergeEvent_Replace(e, partial) ==
  [e EXCEPT !.name = partial.name, !.location = partial.location]

\* .update({...eventData, updated_at}) on one row
MergeEvent(e, partial) ==
  [e EXCEPT !.name = IF partial.name = "" THEN @ ELSE partial.name,
            !.location = IF partial.location = "" THEN @ ELSE partial.location]

updateEvent(s) ==
  /\ NoneInFlight /\ s = "r1"
  /\ \E id \in 1..MaxEvents, partial \in Partials, fail \in FailChoices :
       /\ Injected(fail)
       /\ LET r == [IdleReq EXCEPT !.kind = "updateEvent", !.pc = "done",
                                   !.id = id, !.partial = partial]
              found == {e \in events : e.id = id}
          IN IF fail \/ found = {}
             THEN /\ Finish(s, [r EXCEPT !.ret = "null", !.status = 404])
                  /\ UNCHANGED events
             ELSE /\ events' = {IF e.id = id THEN MergeEvent(e, partial) ELSE e : e \in events}
                  /\ Finish(s, [r EXCEPT !.ret = "value", !.retId = id, !.status = 200])
  /\ UNCHANGED <<fighters, bouts, bout_results, bet_types, nextEventId, nextBoutId,
                 user_bets, bet, lastPlaced>>

\* ---- deleteEvent -----------------------------------------------------------
deleteEvent_Start(s) ==
  /\ NoneInFlight /\ s = "r1"
  /\ \E id \in 1..MaxEvents :
       Begin(s, [IdleReq EXCEPT !.kind = "deleteEvent", !.pc = "delBouts", !.id = id])

\* variant: the delete statement carries no filter on event_id
DeleteBoutsOfEvent_All(bs, results, id) ==
  [bouts |-> {}, bout_results |-> CascadeResults(results, bs)]

\* .from('bouts').delete().eq('event_id', id), with its cascade
DeleteBoutsOfEvent(bs, results, id) ==
  LET gone == {b \in bs : b.event_id = id}
  IN [bouts |-> bs \ gone, bout_results |-> CascadeResults(results, gone)]

\* variant: the error of the bouts delete is logged and the call goes on
BoutsErrorReturn_GoOn(r) == [r EXCEPT !.pc = "delEvent"]

\* if (boutsError) return false; the route answers 404
BoutsErrorReturn(r) == [r EXCEPT !.pc = "done", !.ret = "false", !.status = 404]

deleteEvent_DeleteBouts(s) ==
  /\ req[s].kind = "deleteEvent" /\ req[s].pc = "delBouts"
  /\ \E fail \in FailChoices :
       /\ Injected(fail)
       /\ LET r == req[s]
              d == DeleteBoutsOfEvent(bouts, bout_results, r.id)
          IN IF fail
             THEN /\ Finish(s, BoutsErrorReturn(r))
                  /\ UNCHANGED <<bouts, bout_results>>
             ELSE /\ bouts' = d.bouts
                  /\ bout_results' = d.bout_results
                  /\ Finish(s, [r EXCEPT !.pc = "delEvent",
                                         !.deleted = Cardinality(bouts \ d.bouts),
                                         !.cascaded = Cardinality(bout_results
                                                                  \ d.bout_results)])
  /\ UNCHANGED <<fighters, events, bet_types, nextEventId, nextBoutId,
                 user_bets, bet, lastPlaced>>

\* .from('events').delete().eq('id', id); bouts.event_id cascades
deleteEvent_DeleteEvent(s) ==
  /\ req[s].kind = "deleteEvent" /\ req[s].pc = "delEvent"
  /\ \E fail \in FailChoices :
       /\ Injected(fail)
       /\ LET r == req[s]
              d == DeleteBoutsOfEvent(bouts, bout_results, r.id)
          IN IF fail
             THEN /\ Finish(s, [r EXCEPT !.pc = "done", !.ret = "false", !.status = 404])
                  /\ UNCHANGED <<events, bouts, bout_results>>
             ELSE /\ events' = {e \in events : e.id # r.id}
                  /\ bouts' = d.bouts
                  /\ bout_results' = d.bout_results
                  /\ Finish(s, [r EXCEPT !.pc = "done", !.ret = "true", !.status = 204])
  /\ UNCHANGED <<fighters, bet_types, nextEventId, nextBoutId,
                 user_bets, bet, lastPlaced>>

\* ---- createBetType --------------------------------------------------------
\* variant: a bet type whose name is stored has its description overwritten
BetTypesAfterCreate_Upsert(bts, name, description) ==
  IF \E k \in 1..Len(bts) : bts[k].name = name
  THEN [k \in 1..Len(bts) |->
          IF bts[k].name = name THEN [bts[k] EXCEPT !.description = description]
          ELSE bts[k]]
  ELSE Append(bts, [name |-> name, description |-> description])

\* .from('bet_types').insert({name, description, created_at})
BetTypesAfterCreate(bts, name, description) ==
  Append(bts, [name |-> name, description |-> description])

\* POST /api/bet-types: validation, then createBetType: one insert, no lookup
createBetType(s) ==
  /\ NoneInFlight /\ s = "r1"
  /\ \E name \in BetTypeNames, fail \in FailChoices :
       LET r == [IdleReq EXCEPT !.pc = "done", !.btName = name,
                                !.btDescription = BetTypeDescription]
       IN IF name = ""
          THEN /\ fail = FALSE /\ Injected(fail)
               /\ Finish(s, [r EXCEPT !.kind = "badRequest", !.ret = "none", !.status = 400])
               /\ UNCHANGED bet_types
          ELSE /\ Injected(fail)
               /\ IF fail \/ Len(bet_types) >= MaxBetTypes
                  THEN /\ Finish(s, [r EXCEPT !.kind = "createBetType", !.ret = "null",
                                              !.status = 500])
                       /\ UNCHANGED bet_types
                  ELSE /\ bet_types' = BetTypesAfterCreate(bet_types, name, r.btDescription)
                       /\ Finish(s, [r EXCEPT !.kind = "createBetType", !.ret = "value",
                                              !.retId = Len(bet_types) + 1,
                                              !.status = 201])
  /\ UNCHANGED <<fighters, events, bouts, bout_results, nextEventId, nextBoutId,
                 user_bets, bet, lastPlaced>>

\* ------------------------------------------------------------------------
\* Betting ledger
\* ------------------------------------------------------------------------
UserIds == {"u1"}
BoutIds == {1, 2}
BetTypeIdsOfBets == {1}
PredictedValues == {"", "A", "B"}
BetResults == {"won", "lost"}

BetKeys == UserIds \X BoutIds \X BetTypeIdsOfBets

\* the instants new Date() can read while a bet is inserted
Times == 1..MaxTime

IdleBet ==
  [kind |-> "idle", pc |-> "idle", user_id |-> "", bout_id |-> 0, bet_type_id |-> 0,
   predicted_value |-> "", result |-> "", replaced |-> "",
   ret |-> "pending", status |-> 0]

\* the user_bets rows with the key of request b
RowsOfKey(ub, b) ==
  {x \in ub : x.user_id = b.user_id /\ x.bout_id = b.bout_id
              /\ x.bet_type_id = b.bet_type_id}

\* unique (user_id, bout_id, bet_type_id) on user_bets
UserBetKeyFree(ub, b) == RowsOfKey(ub, b) = {}

\* variant: the bet is appended as a new row instead of overwriting
WithPredictedValue_Append(ub, b) ==
  ub \cup {[user_id |-> b.user_id, bout_id |-> b.bout_id,
            bet_type_id |-> b.bet_type_id,
            predicted_value |-> b.predicted_value, result |-> "",
            created_at |-> MaxTime]}

\* variant: the row is written whole, from the fields of the request
OverwrittenBet_WholeRow(x, b) ==
  [x EXCEPT !.predicted_value = b.predicted_value, !.result = b.result]

\* the row after update({predicted_value: userBet.predicted_value})
OverwrittenBet(x, b) == [x EXCEPT !.predicted_value = b.predicted_value]

\* update({predicted_value}) on the rows of the key
WithPredictedValue(ub, b) ==
  {IF x \in RowsOfKey(ub, b) THEN OverwrittenBet(x, b) ELSE x : x \in ub}

\* update({result}) on the rows of the key
\* variant: the result is written with an upsert, which inserts a row when
\* the key has none
WithResult_Upsert(ub, b) ==
  IF RowsOfKey(ub, b) = {}
  THEN ub \cup {[user_id |-> b.user_id, bout_id |-> b.bout_id,
                 bet_type_id |-> b.bet_type_id,
                 predicted_value |-> "", result |-> b.result,
                 created_at |-> MaxTime]}
  ELSE {IF x \in RowsOfKey(ub, b) THEN [x EXCEPT !.result = b.result] ELSE x : x \in ub}

WithResult(ub, b) ==
  {IF x \in RowsOfKey(ub, b) THEN [x EXCEPT !.result = b.result] ELSE x : x \in ub}

NoBetInFlight == \A s \in Slots : bet[s].pc = "idle"

BetFinish(s, b) == bet' = [bet EXCEPT ![s] = b]

BetReturn(s) ==
  /\ bet[s].pc = "done"
  /\ bet' = [bet EXCEPT ![s] = IdleBet]
  /\ UNCHANGED <<storeVars, rejections, user_bets, req, lastPlaced>>

\* POST /api/user-bets: validation, then createUserBet is entered
createUserBet_Accept(s) ==
  /\ bet[s].pc = "idle"
  /\ \E u \in UserIds, bo \in BoutIds, bt \in BetTypeIdsOfBets, v \in PredictedValues :
       LET b == [IdleBet EXCEPT !.kind = "createUserBet", !.user_id = u, !.bout_id = bo,
                                !.bet_type_id = bt, !.predicted_value = v]
       IN IF u = "" \/ bo = 0 \/ bt = 0 \/ v = ""
          THEN BetFinish(s, [b EXCEPT !.pc = "done", !.ret = "none", !.status = 400])
          ELSE BetFinish(s, [b EXCEPT !.pc = "check"])
  /\ UNCHANGED <<storeVars, rejections, user_bets, req, lastPlaced>>

\* requests served one at a time
createUserBet_Start(s) == NoBetInFlight /\ s = "r1" /\ createUserBet_Accept(s)

\* the lookup of an existing bet for the key
createUserBet_Check(s) ==
  /\ bet[s].kind = "createUserBet" /\ bet[s].pc = "check"
  /\ \E fail \in FailChoices :
       /\ Injected(fail)
       /\ LET b == bet[s]
              found == RowsOfKey(user_bets, b)
          IN IF fail \/ Cardinality(found) > 1
             THEN BetFinish(s, [b EXCEPT !.pc = "done", !.ret = "null", !.status = 500])
             ELSE IF found = {}
             THEN BetFinish(s, [b EXCEPT !.pc = "insert"])
             ELSE BetFinish(s, [b EXCEPT !.pc = "update"])
  /\ UNCHANGED <<storeVars, user_bets, req, lastPlaced>>

\* the bet exists: predicted_value is overwritten
createUserBet_Update(s) ==
  /\ bet[s].kind = "createUserBet" /\ bet[s].pc = "update"
  /\ \E fail \in FailChoices :
       /\ Injected(fail)
       /\ LET b == bet[s]
              k == <<b.user_id, b.bout_id, b.bet_type_id>>
          IN IF fail
             THEN /\ BetFinish(s, [b EXCEPT !.pc = "done", !.ret = "null", !.status = 500])
                  /\ UNCHANGED <<user_bets, lastPlaced>>
             ELSE /\ user_bets' = WithPredictedValue(user_bets, b)
                  /\ IF Cardinality(RowsOfKey(user_bets, b)) = 1
                     THEN /\ BetFinish(s, [b EXCEPT
                               !.pc = "done", !.ret = "value", !.status = 201,
                               !.replaced = (CHOOSE x \in RowsOfKey(user_bets, b) :
                                               TRUE).predicted_value])
                          /\ lastPlaced' = [lastPlaced EXCEPT ![k] = b.predicted_value]
                     ELSE /\ BetFinish(s, [b EXCEPT !.pc = "done", !.ret = "null",
                                                    !.status = 500])
                          /\ UNCHANGED lastPlaced
  /\ UNCHANGED <<storeVars, req>>

\* variant: after a rejected insert the bet of the key is overwritten
AfterInsertError_Overwrite(ub, b) ==
  {IF x \in RowsOfKey(ub, b) THEN [x EXCEPT !.predicted_value = b.predicted_value]
   ELSE x : x \in ub}

\* the user_bets rows after a rejected insert: the error is logged and null
\* returned, no further statement is issued
AfterInsertError(ub, b) == ub

\* no bet for the key: a new row is inserted
createUserBet_Insert(s) ==
  /\ bet[s].kind = "createUserBet" /\ bet[s].pc = "insert"
  /\ \E fail \in FailChoices :
       /\ Injected(fail)
       /\ LET b == bet[s]
              k == <<b.user_id, b.bout_id, b.bet_type_id>>
          IN IF fail \/ ~UserBetKeyFree(user_bets, b)
             THEN /\ BetFinish(s, [b EXCEPT !.pc = "done", !.ret = "null", !.status = 500])
                  /\ user_bets' = AfterInsertError(user_bets, b)
                  /\ UNCHANGED lastPlaced
             ELSE /\ \E now \in Times :
                       user_bets' = user_bets \cup
                         {[user_id |-> b.user_id, bout_id |-> b.bout_id,
                           bet_type_id |-> b.bet_type_id,
                           predicted_value |-> b.predicted_value, result |-> "",
                           created_at |-> now]}
                  /\ lastPlaced' = [lastPlaced EXCEPT ![k] = b.predicted_value]
                  /\ BetFinish(s, [b EXCEPT !.pc = "done", !.ret = "value", !.status = 201])
  /\ UNCHANGED <<storeVars, req>>

\* PUT /api/user-bets/result -> updateBetResult
updateBetResult(s) ==
  /\ NoBetInFlight /\ s = "r1"
  /\ \E u \in UserIds, bo \in BoutIds, bt \in BetTypeIdsOfBets, res \in BetResults,
        fail \in FailChoices :
       /\ Injected(fail)
       /\ LET b == [IdleBet EXCEPT !.kind = "updateBetResult", !.pc = "done",
                                   !.user_id = u, !.bout_id = bo, !.bet_type_id = bt,
                                   !.result = res]
          IN IF fail
             THEN /\ BetFinish(s, [b EXCEPT !.ret = "null", !.status = 404])
                  /\ UNCHANGED user_bets
             ELSE /\ user_bets' = WithResult(user_bets, b)
                  /\ IF Cardinality(RowsOfKey(user_bets, b)) = 1
                     THEN BetFinish(s, [b EXCEPT !.ret = "value", !.status = 200])
                     ELSE BetFinish(s, [b EXCEPT !.ret = "null", !.status = 404])
  /\ UNCHANGED <<storeVars, req, lastPlaced>>

\* ------------------------------------------------------------------------
\* Specifications
\* ------------------------------------------------------------------------

Init ==
  /\ fighters = <<>>
  /\ events = {}
  /\ bouts = {}
  /\ bout_results = {}
  /\ bet_types = <<>>
  /\ user_bets = {}
  /\ nextEventId = 1
  /\ nextBoutId = 1
  /\ rejections = 0
  /\ req = [s \in Slots |-> IdleReq]
  /\ bet = [s \in Slots |-> IdleBet]
  /\ lastPlaced = [k \in BetKeys |-> ""]

Next ==
  \E s \in Slots :
    \/ createOrUpdateFighter_Start(s)
    \/ createOrUpdateFighter_Lookup(s)
    \/ createOrUpdateFighter_Write(s)
    \/ createEvent_Start(s)
    \/ createEvent_InsertEvent(s)
    \/ createEvent_InsertBouts(s)
    \/ addEventResults_Start(s)
    \/ addEventResults_LookupEvent(s)
    \/ addEventResults_CreateEvent(s)
    \/ addEventResults_LookupBout(s)
    \/ addEventResults_InsertBout(s)
    \/ addEventResults_LookupBetType(s)
    \/ addEventResults_InsertBetType(s)
    \/ addEventResults_InsertResult(s)
    \/ updateEvent(s)
    \/ deleteEvent_Start(s)
    \/ deleteEvent_DeleteBouts(s)
    \/ deleteEvent_DeleteEvent(s)
    \/ Return(s)

\* the event side, requests served one at a time
Spec == Init /\ [][Next]_vars

NextViews ==
  \/ Next
  \/ \E s \in Slots :
       \/ getEventById_Start(s)
       \/ getEventById_LookupEvent(s)
       \/ getEventById_LoadBouts(s)
       \/ getEventById_LoadResults(s)
       \/ getEventById_RefreshRecords(s)

\* the event side with its read operation, requests served one at a time
SpecViews == Init /\ [][NextViews]_vars

NextCatalog ==
  \/ Next
  \/ \E s \in Slots : createBetType(s)

\* the event side with the explicit creation of bet types, requests served
\* one at a time
SpecCatalog == Init /\ [][NextCatalog]_vars

\* ---- a store that already holds another event ------------------------------
\* The rows an earlier createEvent and addEventResults for event "E0" left
\* behind: its bout between the two fighters, the result of that bout and the
\* bet type of the result.  Their identifiers lie outside the ones the
\* requests of the model are given (identifiers are UUIDs the store issues).
OtherEventId == MaxEvents + 1

OtherBoutId == MaxBoutRows + 1

OtherEvent ==
  [id |-> OtherEventId, name |-> "E0", date |-> DateFeed, location |-> "Newark"]

OtherBout ==
  [id |-> OtherBoutId, event_id |-> OtherEventId,
   fighter_left_id |-> 1, fighter_right_id |-> 2]

OtherResult ==
  [bout_id |-> OtherBoutId, winner_id |-> 1, bet_type_id |-> 1,
   round |-> parseResultString(ResKO).round,
   time |-> parseResultString(ResKO).time, details |-> ResKO]

InitShared ==
  /\ fighters = <<[name |-> NameA, wins |-> 0, losses |-> 0, draws |-> 0],
                  [name |-> NameB, wins |-> 0, losses |-> 0, draws |-> 0]>>
  /\ events = {OtherEvent}
  /\ bouts = {OtherBout}
  /\ bout_results = {OtherResult}
  /\ bet_types = <<[name |-> parseResultString(ResKO).betType,
                    description |-> "Result type: " \o parseResultString(ResKO).betType]>>
  /\ user_bets = {}
  /\ nextEventId = 1
  /\ nextBoutId = 1
  /\ rejections = 0
  /\ req = [s \in Slots |-> IdleReq]
  /\ bet = [s \in Slots |-> IdleBet]
  /\ lastPlaced = [k \in BetKeys |-> ""]

SpecShared == InitShared /\ [][Next]_vars

\* ---- the two parsers on their own -----------------------------------------
\* the texts ts[1], ..., ts[Len(ts)] joined with sep between them
JoinTexts(ts, sep) ==
  LET joined[k \in 0..Len(ts)] ==
        IF k = 0 THEN <<>>
        ELSE IF k = 1 THEN ts[1]
        ELSE joined[k - 1] \o sep \o ts[k]
  IN joined[Len(ts)]

\* the lists of at most n members of tokens
TokenLists(tokens, n) == UNION {[1..k -> tokens] : k \in 0..n}

\* result strings: the keywords of the classifier, a time and round, and a
\* keyword in lower case, in every order
ResultTokens ==
  {TxtKOTKO, TxtDec, TxtSplit, TxtUnanimous,
   <<",", " ", "0", ":", "5", "1", " ", "R", "2">>, <<"d", "e", "c">>,
   <<"1", ":", "0", "5", "R", "3">>, <<"0", ":", "5", "1", " ", "R">>}

ResultTexts == {JoinTexts(ts, <<>>) : ts \in TokenLists(ResultTokens, MaxTokens)}

\* record strings: up to MaxSegments segments joined by hyphens; a segment is
\* empty, a number, a number followed by text, text, a number after a blank
\* or a plus sign, or a hexadecimal literal
RecordSegments ==
  {<<>>, <<"7">>, <<"1", "2">>, <<"4", "x">>, <<"a", "b", "c">>,
   <<" ", "3">>, <<"+", "5">>, <<"0", "x", "A">>}

RecordTexts == {JoinTexts(ts, <<"-">>) : ts \in TokenLists(RecordSegments, MaxSegments)}

PureCalls ==
  {[IdleReq EXCEPT !.kind = "parseResultString", !.pc = "call", !.text = t] :
     t \in ResultTexts}
  \cup {[IdleReq EXCEPT !.kind = "parseRecord", !.pc = "call", !.record = t] :
          t \in RecordTexts}

InitPure ==
  /\ fighters = <<>>
  /\ events = {}
  /\ bouts = {}
  /\ bout_results = {}
  /\ bet_types = <<>>
  /\ user_bets = {}
  /\ nextEventId = 1
  /\ nextBoutId = 1
  /\ rejections = 0
  /\ req \in {[s \in Slots |-> IF s = "r1" THEN r ELSE IdleReq] : r \in PureCalls}
  /\ bet = [s \in Slots |-> IdleBet]
  /\ lastPlaced = [k \in BetKeys |-> ""]

parseResultString_Apply(s) ==
  /\ req[s].kind = "parseResultString" /\ req[s].pc = "call"
  /\ req' = [req EXCEPT ![s] = [@ EXCEPT !.pc = "done",
                                         !.parsed = parseResultString(req[s].text)]]
  /\ UNCHANGED <<storeVars, rejections, user_bets, bet, lastPlaced>>

parseRecord_Apply(s) ==
  /\ req[s].kind = "parseRecord" /\ req[s].pc = "call"
  /\ req' = [req EXCEPT ![s] = [@ EXCEPT !.pc = "done",
                                         !.tally = parseRecord(req[s].record)]]
  /\ UNCHANGED <<storeVars, rejections, user_bets, bet, lastPlaced>>

NextPure ==
  \E s \in Slots :
    \/ parseResultString_Apply(s)
    \/ parseRecord_Apply(s)

\* one call of a parser on one text
SpecPure == InitPure /\ [][NextPure]_vars

\* ---- the fighter registry under unusual record strings --------------------
Registry_Call(s) == createOrUpdateFighter_Call(s, SignedRecords)

Registry_CreateEvent(s) == createEvent_Submit(s, SignedBoutLists)

NextRegistry ==
  \E s \in Slots :
    \/ Registry_Call(s)
    \/ Registry_CreateEvent(s)
    \/ createOrUpdateFighter_Lookup(s)
    \/ createOrUpdateFighter_Write(s)
    \/ createEvent_InsertEvent(s)
    \/ createEvent_InsertBouts(s)
    \/ Return(s)

\* createOrUpdateFighter and createEvent with record strings that carry
\* hyphens and signs in unusual places, requests served one at a time
SpecRegistry == Init /\ [][NextRegistry]_vars

\* the end-to-end scenario on the empty store: the event is created with
\* one bout, later the result of that bout is posted
Scenario_CreateEvent(s) ==
  /\ events = {} /\ createEvent_Submit(s, {ScenarioBouts})

Scenario_PostResults(s) ==
  /\ events # {} /\ bout_results = {}
  /\ addEventResults_Submit(s, ScenarioResults)

NextEndToEnd ==
  \E s \in Slots :
    \/ Scenario_CreateEvent(s)
    \/ createEvent_InsertEvent(s)
    \/ createOrUpdateFighter_Lookup(s)
    \/ createOrUpdateFighter_Write(s)
    \/ createEvent_InsertBouts(s)
    \/ Scenario_PostResults(s)
    \/ addEventResults_LookupEvent(s)
    \/ addEventResults_LookupBout(s)
    \/ addEventResults_InsertBout(s)
    \/ addEventResults_LookupBetType(s)
    \/ addEventResults_InsertBetType(s)
    \/ addEventResults_InsertResult(s)
    \/ getEventById_Start(s)
    \/ getEventById_LookupEvent(s)
    \/ getEventById_LoadBouts(s)
    \/ getEventById_LoadResults(s)
    \/ getEventById_RefreshRecords(s)
    \/ Return(s)

\* the end-to-end scenario, requests served one at a time
SpecEndToEnd == Init /\ [][NextEndToEnd]_vars

NextBets ==
  \E s \in Slots :
    \/ createUserBet_Start(s)
    \/ createUserBet_Check(s)
    \/ createUserBet_Update(s)
    \/ createUserBet_Insert(s)
    \/ updateBetResult(s)
    \/ BetReturn(s)

\* the betting ledger, requests served one at a time
SpecBets == Init /\ [][NextBets]_vars

NextBetsConcurrent ==
  \E s \in Slots :
    \/ createUserBet_Accept(s)
    \/ createUserBet_Check(s)
    \/ createUserBet_Update(s)
    \/ createUserBet_Insert(s)
    \/ BetReturn(s)

\* createUserBet requests served concurrently, their store statements
\* interleaved in every order
SpecBetsConcurrent == Init /\ [][NextBetsConcurrent]_vars

Concurrent_CreateEvent(s) == s = "r1" /\ createEvent_Accept(s, ConcurrentBoutLists)

Concurrent_PostResults(s) == s = "r2" /\ addEventResults_Accept(s, ConcurrentResultLists)

NextConcurrent ==
  \E s \in Slots :
    \/ Concurrent_CreateEvent(s)
    \/ Concurrent_PostResults(s)
    \/ createEvent_InsertEvent(s)
    \/ createEvent_InsertBouts(s)
    \/ createOrUpdateFighter_Lookup(s)
    \/ createOrUpdateFighter_Write(s)
    \/ addEventResults_LookupEvent(s)
    \/ addEventResults_CreateEvent(s)
    \/ addEventResults_LookupBout(s)
    \/ addEventResults_InsertBout(s)
    \/ addEventResults_LookupBetType(s)
    \/ addEventResults_InsertBetType(s)
    \/ addEventResults_InsertResult(s)
    \/ Return(s)

\* a createEvent request and an addEventResults request served concurrently,
\* their store statements interleaved in every order
SpecConcurrent == Init /\ [][NextConcurrent]_vars

\* ---- events dated by a text that is no date ----------------------------------
\* texts for which new Date(text) is an Invalid Date: words without a number,
\* and the ISO form with a month and day out of range
DateWord == <<"T", "B", "D">>
DateWords == <<"n", "e", "x", "t", " ", "w", "e", "e", "k">>
DateOutOfRange == <<"2", "0", "2", "5", "-", "1", "3", "-", "4", "5">>
InvalidDates == {DateWord, DateWords, DateOutOfRange}

\* the store holds event 1, dated by one of the texts or by a date of the
\* feed, with a bout between A and B and, or not, the result of that bout
InitUndated ==
  /\ fighters = <<[name |-> NameA, wins |-> 1, losses |-> 2, draws |-> 0],
                  [name |-> NameB, wins |-> 0, losses |-> 0, draws |-> 0]>>
  /\ events \in {{[id |-> 1, name |-> "E1", date |-> d, location |-> "Newark"]} :
                   d \in InvalidDates \cup {DateFeed}}
  /\ bouts = {[id |-> 1, event_id |-> 1, fighter_left_id |-> 1, fighter_right_id |-> 2]}
  /\ bout_results \in {{}, {[OtherResult EXCEPT !.bout_id = 1]}}
  /\ bet_types = <<[name |-> parseResultString(ResKO).betType,
                    description |-> "Result type: " \o parseResultString(ResKO).betType]>>
  /\ user_bets = {}
  /\ nextEventId = 2
  /\ nextBoutId = 2
  /\ rejections = 0
  /\ req = [s \in Slots |-> IdleReq]
  /\ bet = [s \in Slots |-> IdleBet]
  /\ lastPlaced = [k \in BetKeys |-> ""]

NextUndated ==
  \E s \in Slots :
    \/ getEventById_Start(s)
    \/ getEventById_LookupEvent(s)
    \/ getEventById_LoadBouts(s)
    \/ getEventById_LoadResults(s)
    \/ getEventById_RefreshRecords(s)
    \/ Return(s)

\* getEventById on an event whose date text may be no date, at every clock
\* reading
SpecUndated == InitUndated /\ [][NextUndated]_vars

\* ---- two direct calls for the same stored fighter ----------------------------
\* fighter A is stored with an empty tally
InitRace ==
  /\ fighters = <<[name |-> NameA, wins |-> 0, losses |-> 0, draws |-> 0]>>
  /\ events = {}
  /\ bouts = {}
  /\ bout_results = {}
  /\ bet_types = <<>>
  /\ user_bets = {}
  /\ nextEventId = 1
  /\ nextBoutId = 1
  /\ rejections = 0
  /\ req = [s \in Slots |-> IdleReq]
  /\ bet = [s \in Slots |-> IdleBet]
  /\ lastPlaced = [k \in BetKeys |-> ""]

RaceRecords == {Rec12, Rec201, Rec194}

Race_Call(s) == createOrUpdateFighter_Enter(s, NameA, RaceRecords)

NextRace ==
  \E s \in Slots :
    \/ Race_Call(s)
    \/ createOrUpdateFighter_Lookup(s)
    \/ createOrUpdateFighter_Write(s)
    \/ Return(s)

\* createOrUpdateFighter calls for the stored fighter A, interleaved at every
\* await
SpecRace == InitRace /\ [][NextRace]_vars

\* ---- two result posts for the same new event ---------------------------------
\* the empty store, its event identifiers starting one lower so that it
\* generates two of them
InitTwin ==
  /\ fighters = <<>>
  /\ events = {}
  /\ bouts = {}
  /\ bout_results = {}
  /\ bet_types = <<>>
  /\ user_bets = {}
  /\ nextEventId = MaxEvents - 1
  /\ nextBoutId = 1
  /\ rejections = 0
  /\ req = [s \in Slots |-> IdleReq]
  /\ bet = [s \in Slots |-> IdleBet]
  /\ lastPlaced = [k \in BetKeys |-> ""]

Twin_PostResults(s) == addEventResults_Accept(s, ConcurrentResultLists)

NextTwin ==
  \E s \in Slots :
    \/ Twin_PostResults(s)
    \/ addEventResults_LookupEvent(s)
    \/ addEventResults_CreateEvent(s)
    \/ createOrUpdateFighter_Lookup(s)
    \/ createOrUpdateFighter_Write(s)
    \/ addEventResults_LookupBout(s)
    \/ addEventResults_InsertBout(s)
    \/ addEventResults_LookupBetType(s)
    \/ addEventResults_InsertBetType(s)
    \/ addEventResults_InsertResult(s)
    \/ Return(s)

\* addEventResults requests for the same event served concurrently, their
\* store statements interleaved in every order
SpecTwin == InitTwin /\ [][NextTwin]_vars

\* ---- events created twice under one name -------------------------------------
NamesakeBoutLists == {<<>>} \cup ConcurrentBoutLists

Namesake_CreateEvent(s) == createEvent_Submit(s, NamesakeBoutLists)

Namesake_PostResults(s) == addEventResults_Submit(s, ConcurrentResultLists)

NextNamesakes ==
  \E s \in Slots :
    \/ Namesake_CreateEvent(s)
    \/ createEvent_InsertEvent(s)
    \/ createEvent_InsertBouts(s)
    \/ Namesake_PostResults(s)
    \/ addEventResults_LookupEvent(s)
    \/ addEventResults_CreateEvent(s)
    \/ createOrUpdateFighter_Lookup(s)
    \/ createOrUpdateFighter_Write(s)
    \/ addEventResults_LookupBout(s)
    \/ addEventResults_InsertBout(s)
    \/ addEventResults_LookupBetType(s)
    \/ addEventResults_InsertBetType(s)
    \/ addEventResults_InsertResult(s)
    \/ Return(s)

\* createEvent and addEventResults requests for one event name, served one
\* at a time, on a store that generates two event identifiers
SpecNamesakes == InitTwin /\ [][NextNamesakes]_vars

\* ---- a fighters table with a name stored twice ------------------------------
\* the table after two requests have both inserted the new fighter A, with
\* B and C stored once; the table is full
InitDuplicates ==
  /\ fighters = <<[name |-> NameA, wins |-> 1, losses |-> 2, draws |-> 0],
                  [name |-> NameA, wins |-> 1, losses |-> 2, draws |-> 0],
                  [name |-> NameB, wins |-> 0, losses |-> 0, draws |-> 0],
                  [name |-> NameC, wins |-> 0, losses |-> 0, draws |-> 0]>>
  /\ events = {}
  /\ bouts = {}
  /\ bout_results = {}
  /\ bet_types = <<>>
  /\ user_bets = {}
  /\ nextEventId = 1
  /\ nextBoutId = 1
  /\ rejections = 0
  /\ req = [s \in Slots |-> IdleReq]
  /\ bet = [s \in Slots |-> IdleBet]
  /\ lastPlaced = [k \in BetKeys |-> ""]

\* bouts and bout results with and without the fighter stored twice
DuplicateBoutLists ==
  { <<BoutInput(NameA, Rec201, NameB, Rec12)>>,
    <<BoutInput(NameB, Rec12, NameC, Rec201)>>,
    <<BoutInput(NameB, Rec201, NameA, Rec12), BoutInput(NameB, Rec12, NameC, RecEmpty)>> }

DuplicateResultLists ==
  { <<ResultInput(NameB, <<"A", "\n", "L">>, ResKO)>>,
    <<ResultInput(NameB, NameC, ResKO), ResultInput(NameA, NameB, ResSplit)>>,
    <<ResultInput(NameA, NameC, ResSplit), ResultInput(NameC, NameB, ResKO)>> }

Duplicates_Call(s) == createOrUpdateFighter_Call(s, Records)

Duplicates_CreateEvent(s) == createEvent_Submit(s, DuplicateBoutLists)

Duplicates_PostResults(s) == addEventResults_Submit(s, DuplicateResultLists)

NextDuplicates ==
  \E s \in Slots :
    \/ Duplicates_Call(s)
    \/ Duplicates_CreateEvent(s)
    \/ Duplicates_PostResults(s)
    \/ createOrUpdateFighter_Lookup(s)
    \/ createOrUpdateFighter_Write(s)
    \/ createEvent_InsertEvent(s)
    \/ createEvent_InsertBouts(s)
    \/ addEventResults_LookupEvent(s)
    \/ addEventResults_CreateEvent(s)
    \/ addEventResults_LookupBout(s)
    \/ addEventResults_InsertBout(s)
    \/ addEventResults_LookupBetType(s)
    \/ addEventResults_InsertBetType(s)
    \/ addEventResults_InsertResult(s)
    \/ Return(s)

\* the event side on a store with two fighters named A
SpecDuplicates == InitDuplicates /\ [][NextDuplicates]_vars

\* ---- names as the scrape delivers them -------------------------------------
\* the "\nL" the scrape leaves behind the name of the loser
LoserSuffix == <<"\n", "L">>

\* bout_results whose names carry white space and the loser suffix: a stored
\* fighter and a new one, the suffix with and without white space around the
\* text, the same loser twice in one batch in two spellings
ScrapedResultLists ==
  { <<ResultInput(<<" ", "A", "\t">>, NameB \o LoserSuffix, ResKO)>>,
    <<ResultInput(NameA, <<" ">> \o NameB \o LoserSuffix \o <<" ">>, ResKO)>>,
    <<ResultInput(NameA, NameB \o LoserSuffix \o <<"\n">>, ResKO)>>,
    <<ResultInput(NameA, <<"\t">> \o NameB, ResKO)>>,
    <<ResultInput(NameA, NameC \o LoserSuffix, ResKO),
      ResultInput(NameB, <<" ">> \o NameC \o LoserSuffix \o <<" ">>, ResSplit)>>,
    <<ResultInput(NameA, NameC, ResKO),
      ResultInput(NameB, NameC \o LoserSuffix, ResSplit)>> }

Scraped_PostResults(s) == addEventResults_Submit(s, ScrapedResultLists)

NextScraped ==
  \E s \in Slots :
    \/ Scraped_PostResults(s)
    \/ createOrUpdateFighter_Lookup(s)
    \/ createOrUpdateFighter_Write(s)
    \/ addEventResults_LookupEvent(s)
    \/ addEventResults_CreateEvent(s)
    \/ addEventResults_LookupBout(s)
    \/ addEventResults_InsertBout(s)
    \/ addEventResults_LookupBetType(s)
    \/ addEventResults_InsertBetType(s)
    \/ addEventResults_InsertResult(s)
    \/ Return(s)

\* addEventResults with names as scraped, on a store that holds fighters A
\* and B, requests served one at a time
SpecScraped == InitShared /\ [][NextScraped]_vars

\* ---- server start-up ------------------------------------------------------
\* The ports of the host are 1..PortLimit (PortLimit stands for 65535, the
\* highest port listen accepts).  A port is free, in use by another process
\* (listen fails with EADDRINUSE) or refused for another cause (EACCES).
PortStates == {"free", "inuse", "denied"}

\* variant: the next port is computed on the text of the port, "8000" + 1
NextPort_Concatenated(initialPort) == 10 * initialPort + 1

\* Number(initialPort) + 1
NextPort(initialPort) == initialPort + 1

\* startServer(port) is called on a host with some assignment of the ports
InitServer ==
  /\ fighters = <<>>
  /\ events = {}
  /\ bouts = {}
  /\ bout_results = {}
  /\ bet_types = <<>>
  /\ user_bets = {}
  /\ nextEventId = 1
  /\ nextBoutId = 1
  /\ rejections = 0
  /\ req \in {[s \in Slots |->
                 IF s = "r1"
                 THEN [IdleReq EXCEPT !.kind = "startServer", !.pc = "listen",
                                      !.configured = p, !.port = p, !.ports = host]
                 ELSE IdleReq] :
                p \in 1..PortLimit, host \in [1..PortLimit -> PortStates]}
  /\ bet = [s \in Slots |-> IdleBet]
  /\ lastPlaced = [k \in BetKeys |-> ""]

\* app.listen(initialPort, ...): the server listens, or an 'error' event is
\* emitted with the code of the failure
startServer_Listen(s) ==
  /\ req[s].kind = "startServer" /\ req[s].pc = "listen"
  /\ LET r == req[s]
     IN IF r.ports[r.port] = "free"
        THEN req' = [req EXCEPT ![s] = [r EXCEPT !.pc = "listening"]]
        ELSE req' = [req EXCEPT ![s] =
               [r EXCEPT !.pc = "error",
                         !.code = IF r.ports[r.port] = "inuse" THEN "EADDRINUSE"
                                  ELSE "EACCES"]]
  /\ UNCHANGED <<storeVars, rejections, user_bets, bet, lastPlaced>>

\* server.on('error', ...): EADDRINUSE starts the server on the next port
\* (listen throws on a port above the highest one), any other code is logged
startServer_OnError(s) ==
  /\ req[s].kind = "startServer" /\ req[s].pc = "error"
  /\ LET r == req[s]
     IN IF r.code = "EADDRINUSE"
        THEN IF NextPort(r.port) \in 1..PortLimit
             THEN req' = [req EXCEPT ![s] = [r EXCEPT !.pc = "listen", !.code = "",
                                                      !.port = NextPort(r.port)]]
             ELSE req' = [req EXCEPT ![s] = [r EXCEPT !.pc = "crashed",
                                                      !.code = "ERR_SOCKET_BAD_PORT"]]
        ELSE req' = [req EXCEPT ![s] = [r EXCEPT !.pc = "failed"]]
  /\ UNCHANGED <<storeVars, rejections, user_bets, bet, lastPlaced>>

NextServer ==
  \E s \in Slots :
    \/ startServer_Listen(s)
    \/ startServer_OnError(s)

\* the start-up of the server
SpecServer == InitServer /\ [][NextServer]_vars

\* the event loop delivers the outcome of every listen call
SpecServerLive == SpecServer /\ WF_vars(NextServer)

\* ------------------------------------------------------------------------
\* Properties
\* ------------------------------------------------------------------------
TallyOf(row) == [wins |-> row.wins, losses |-> row.losses, draws |-> row.draws]

FighterCallDone(r) == r.kind = "fighter" /\ r.pc = "done"

\* C1: with requests served one at a time there is at most one fighters row
\* per distinct name, also after a createEvent that names the same fighter in
\* more than one bout.
C1_OneFighterPerName ==
  \A i, j \in 1..Len(fighters) : fighters[i].name = fighters[j].name => i = j

\* C2: after any sequence of createUserBet calls served one at a time there
\* is at most one user_bets row per (user_id, bout_id, bet_type_id) and it
\* holds the value of the last bet placed for that key; a key for which no
\* bet was placed has no row.
C2_OneBetPerKeyLastValue ==
  \A k \in BetKeys :
    LET rows == {x \in user_bets : <<x.user_id, x.bout_id, x.bet_type_id>> = k}
    IN /\ Cardinality(rows) <= 1
       /\ lastPlaced[k] = "" => rows = {}
       /\ lastPlaced[k] # "" => \E x \in rows : x.predicted_value = lastPlaced[k]

\* a second bet on a key has returned, having replaced a different value
C2_Witness ==
  \E s \in Slots :
    /\ bet[s].kind = "createUserBet" /\ bet[s].pc = "done" /\ bet[s].ret = "value"
    /\ bet[s].replaced # "" /\ bet[s].replaced # bet[s].predicted_value
    /\ \E x \in user_bets :
         /\ <<x.user_id, x.bout_id, x.bet_type_id>>
              = <<bet[s].user_id, bet[s].bout_id, bet[s].bet_type_id>>
         /\ x.predicted_value = bet[s].predicted_value

FailureOutcomes ==
  {"fighter", "boutLookup", "boutInsert", "betTypeLookup", "betTypeInsert",
   "resultInsert", "resultRejected"}

\* C3: once its event is resolved addEventResults returns true however many
\* bout results failed, and a bout result that fails at any step is skipped
\* alone: every bout result of the batch has been processed when the call
\* returns, and while the loop runs every bout result before the current one.
C3_BatchContinues ==
  \A s \in Slots :
    LET r == req[s]
    IN r.kind = "addEventResults" =>
         /\ (r.pc = "done" /\ r.eventId # 0) =>
              /\ r.ret = "true" /\ r.status = 201
              /\ \A k \in 1..Len(r.results) : r.outcome[k] # "none"
         /\ (r.pc = "done" /\ r.eventId = 0) => r.ret = "false"
         /\ r.pc \notin {"done", "lookupEvent", "arInsEvent"} =>
              /\ r.i \in 1..Len(r.results)
              /\ \A k \in 1..(r.i - 1) : r.outcome[k] # "none"

\* a batch has returned true with its first bout result failed and its
\* second one recorded
C3_Witness ==
  \E s \in Slots :
    /\ req[s].kind = "addEventResults" /\ req[s].pc = "done" /\ req[s].ret = "true"
    /\ Len(req[s].results) = 2
    /\ req[s].outcome[1] \in FailureOutcomes
    /\ req[s].outcome[2] = "ok"

\* C4: a bout has at most one bout_results row, and a row once written is
\* never changed: in every step it stays as it is or goes away with its bout.
C4_OneResultPerBoutFrozen ==
  /\ [](\A x, y \in bout_results : x.bout_id = y.bout_id => x = y)
  /\ [][\A x \in bout_results :
          \/ x \in bout_results'
          \/ /\ ~\E y \in bout_results' : y.bout_id = x.bout_id
             /\ ~\E b \in bouts' : b.id = x.bout_id]_vars

\* an addEventResults met a bout that already had its result: the insert was
\* refused for that bout, the loop went on and recorded the next bout result
C4_Witness ==
  \E s \in Slots :
    /\ req[s].kind = "addEventResults" /\ req[s].pc = "done"
    /\ Len(req[s].results) = 2
    /\ req[s].outcome[1] = "resultRejected"
    /\ req[s].outcome[2] = "ok"
    /\ Cardinality(bout_results) = 2

\* C5: addEventResults leaves the wins, losses and draws of every fighter
\* already stored as they were.
C5_ResultsKeepTallies ==
  [][(\E s \in Slots : req[s].kind = "addEventResults" /\ req[s].pc # "done")
       => \A i \in 1..Len(fighters) : TallyOf(fighters'[i]) = TallyOf(fighters[i])]_vars

\* C6: when createOrUpdateFighter finds the name and the store takes the
\* update, the row keeps its id and name and its wins, losses and draws are
\* those of the parsed record, whatever they were before; an empty record
\* gives 0-0-0 on update and on create.
C6_FullOverwrite ==
  \A s \in Slots :
    LET r == req[s]
    IN FighterCallDone(r) =>
         /\ r.outcome = <<"updated">> =>
              /\ r.existing.id # 0 /\ r.retId = r.existing.id
              /\ r.retId \in 1..Len(fighters)
              /\ fighters[r.retId].name = r.fname
              /\ TallyOf(fighters[r.retId]) = parseRecord(r.record)
              /\ TallyOf(r.retF) = parseRecord(r.record)
         /\ (r.outcome[1] \in {"updated", "inserted"} /\ r.record = <<>>) =>
              TallyOf(fighters[r.retId]) = [wins |-> 0, losses |-> 0, draws |-> 0]
         /\ (r.outcome[1] \in {"updated", "inserted"} /\ r.record = Rec201) =>
              TallyOf(fighters[r.retId]) = [wins |-> 2, losses |-> 0, draws |-> 1]

\* an update has replaced a tally that differed in wins, losses and draws
C6_Witness ==
  \E s \in Slots :
    /\ FighterCallDone(req[s]) /\ req[s].outcome = <<"updated">>
    /\ req[s].existing.wins # req[s].retF.wins
    /\ req[s].existing.losses # req[s].retF.losses
    /\ req[s].existing.draws # req[s].retF.draws
    /\ TallyOf(fighters[req[s].retId]) = TallyOf(req[s].retF)

\* the call before this one resolved the same name with the same record and
\* the store took its write
RepeatsCall(r) ==
  /\ r.kind = "fighter"
  /\ r.prev.kind = "fighter" /\ r.prev.fname = r.fname /\ r.prev.record = r.record
  /\ r.prev.how \in {"updated", "inserted"}

\* C7: resolving the same name twice in a row with the same record leaves one
\* row of that name; both calls return its id, it carries the tally of the
\* record, and the second call leaves the fighters table as the first call
\* left it.
C7_ResolveTwice ==
  /\ [](\A s \in Slots :
          LET r == req[s]
          IN (FighterCallDone(r) /\ RepeatsCall(r) /\ r.retId # 0) =>
               /\ r.retId = r.prev.retId
               /\ Cardinality({i \in 1..Len(fighters) : fighters[i].name = r.fname}) = 1
               /\ fighters[r.retId].name = r.fname
               /\ TallyOf(fighters[r.retId]) = parseRecord(r.record))
  /\ [][\A s \in Slots :
          (RepeatsCall(req[s]) /\ req[s].pc = "tasks") => fighters' = fighters]_vars

\* the second of two equal calls has returned through the update path
C7_Witness ==
  \E s \in Slots :
    /\ FighterCallDone(req[s]) /\ RepeatsCall(req[s])
    /\ req[s].outcome = <<"updated">>
    /\ req[s].record # <<>>
    /\ req[s].retId = req[s].prev.retId

\* C8 as stated: createOrUpdateFighter returns null only if the lookup by
\* name fails.
C8_NullOnlyOnLookupError ==
  \A s \in Slots :
    (FighterCallDone(req[s]) /\ req[s].ret = "null")
      => req[s].outcome = <<"lookupError">>

\* C8 amended: createOrUpdateFighter returns null exactly when the lookup by
\* name fails or the store rejects the insert of a new fighter; when the
\* store rejects the update it returns the fighter as read by the lookup.
C8_NullOnLookupOrInsertError ==
  \A s \in Slots :
    LET r == req[s]
    IN FighterCallDone(r) =>
         /\ r.ret = "null" <=> r.outcome[1] \in {"lookupError", "insertRejected"}
         /\ r.ret = "null" <=> r.retId = 0
         /\ r.outcome = <<"updateRejected">> =>
              r.retF = r.existing /\ r.existing.id # 0
         /\ r.outcome = <<"insertRejected">> => r.existing.id = 0

\* the store rejected the insert of a new fighter and the call returned null
C8_Witness ==
  \E s \in Slots :
    /\ FighterCallDone(req[s])
    /\ req[s].outcome = <<"insertRejected">> /\ req[s].ret = "null"
    /\ ~\E i \in 1..Len(fighters) : fighters[i].name = req[s].fname

\* C9: createEvent returns null only when the event insert fails; otherwise
\* the event row stays whatever happens to its bouts, the bouts with an
\* unresolved fighter are dropped, the event gets one bout row per bout with
\* both fighters resolved (none when the bulk insert is rejected), and the
\* event is returned with status 201.
C9_EventKeptBoutsDropped ==
  \A s \in Slots :
    LET r == req[s]
        mine == {b \in bouts : b.event_id = r.eventId}
    IN (r.kind = "createEvent" /\ r.pc = "done") =>
         /\ r.ret = "null" <=> r.outcome = <<"insertError">>
         /\ r.ret = "null" => r.eventId = 0 /\ r.status = 500
         /\ r.ret = "value" =>
              /\ r.status = 201 /\ r.retId = r.eventId
              /\ \E e \in events : e.id = r.eventId /\ e.name = r.ename
              /\ r.resolved <= Len(r.bouts)
              /\ r.outcome = <<"boutsInserted">> =>
                   Cardinality(mine) = r.resolved /\ r.resolved >= 1
              /\ r.outcome[1] \in {"noBouts", "allDropped", "boutsRejected"} =>
                   mine = {}
              /\ r.outcome = <<"allDropped">> => r.resolved = 0 /\ Len(r.bouts) >= 1
              /\ r.outcome = <<"noBouts">> => Len(r.bouts) = 0

\* a createEvent with two bouts lost one of them to a failed fighter
\* resolution and stored the other
C9_Witness ==
  \E s \in Slots :
    /\ req[s].kind = "createEvent" /\ req[s].pc = "done" /\ req[s].ret = "value"
    /\ Len(req[s].bouts) = 2 /\ req[s].resolved = 1
    /\ req[s].outcome = <<"boutsInserted">>
    /\ Cardinality({b \in bouts : b.event_id = req[s].eventId}) = 1

\* C10: every bout references a stored event and two stored fighters, and
\* every bout result references a stored bout.
C10_ReferentialIntegrity ==
  /\ \A b \in bouts :
       /\ \E e \in events : e.id = b.event_id
       /\ b.fighter_left_id \in 1..Len(fighters)
       /\ b.fighter_right_id \in 1..Len(fighters)
  /\ \A x \in bout_results : \E b \in bouts : b.id = x.bout_id

\* a deleteEvent has removed an event together with bouts that had results
C10_Witness ==
  \E s \in Slots :
    /\ req[s].kind = "deleteEvent" /\ req[s].pc = "done" /\ req[s].ret = "true"
    /\ req[s].deleted >= 1 /\ req[s].cascaded >= 1
    /\ Len(fighters) >= 2

\* ---- getEventById ---------------------------------------------------------
\* a getEventById call has returned an event
ViewDone(r) == r.kind = "getEventById" /\ r.pc = "done" /\ r.ret = "value"

\* the calendar date written in the text lies before the local day of the
\* clock reading
DatedBeforeToday(date, clock) ==
  /\ ParseDate(date).ok
  /\ DaysFromCivil(ParseDate(date).y, ParseDate(date).m, ParseDate(date).d)
       < (clock.now + clock.tz) \div HoursPerDay

\* C11: in the event getEventById returns (all its reads answered) a bout
\* carries a result block if and only if the event is dated before the
\* current day and a bout_results row is stored for that bout.
C11_ResultIffPastAndStored ==
  \A s \in Slots :
    (ViewDone(req[s]) /\ req[s].misses = 0) =>
      \A k \in 1..Len(req[s].view) :
        req[s].view[k].hasResult <=>
          /\ DatedBeforeToday(req[s].date, req[s].clock)
          /\ \E res \in bout_results : res.bout_id = req[s].view[k].id

\* the bouts of event id as stored, in the order of their ids
StoredBoutsOf(id) == SortedById({b \in bouts : b.event_id = id})

\* C12: for an event dated before the current day getEventById (all its
\* reads answered) returns every stored bout of the event, with or without
\* a result, and shows for both fighters the W-L-D text of the tally stored
\* now.
C12_RecordsAreCurrentTallies ==
  \A s \in Slots :
    LET r == req[s]
    IN (ViewDone(r) /\ r.misses = 0 /\ DatedBeforeToday(r.date, r.clock)) =>
         /\ Len(r.view) = Len(StoredBoutsOf(r.id))
         /\ \A k \in 1..Len(r.view) :
              LET b == StoredBoutsOf(r.id)[k]
              IN /\ r.view[k].id = b.id
                 /\ r.view[k].left_record = FormatRecord(fighters[b.fighter_left_id])
                 /\ r.view[k].right_record = FormatRecord(fighters[b.fighter_right_id])

\* a past event is shown with one bout that has a result and one that has
\* none, the latter with a tally written by a later createOrUpdateFighter
C12_Witness ==
  \E s \in Slots :
    /\ ViewDone(req[s]) /\ req[s].misses = 0
    /\ DatedBeforeToday(req[s].date, req[s].clock)
    /\ \E k, j \in 1..Len(req[s].view) :
         /\ req[s].view[k].hasResult
         /\ ~req[s].view[j].hasResult
         /\ req[s].view[j].left_record = <<"2", "-", "0", "-", "1">>

\* C13: in the end-to-end scenario with no statement rejected, getEventById
\* after createEvent returns exactly one bout, A against B with the records
\* 19-4-0 and 18-2-0; after the result of A over B has been posted, and with
\* the event dated before the current day, it still returns exactly one
\* bout, now with a result block naming A as the winner, the classification
\* of the result text as bet type, round and time, and the text as details.
C13_EndToEnd ==
  \A s \in Slots :
    LET r == req[s]
    IN (ViewDone(r) /\ rejections = 0) =>
         /\ Len(r.view) = 1
         /\ r.view[1].left_fighter = NameA /\ r.view[1].right_fighter = NameB
         /\ bout_results = {} =>
              /\ r.view[1].left_record = <<"1", "9", "-", "4", "-", "0">>
              /\ r.view[1].right_record = <<"1", "8", "-", "2", "-", "0">>
              /\ ~r.view[1].hasResult
         /\ (bout_results # {} /\ DatedBeforeToday(r.date, r.clock)) =>
              /\ r.view[1].hasResult
              /\ r.view[1].result.winner_name = NameA
              /\ r.view[1].result.details \in {ResKO, ResSplit}
              /\ r.view[1].result.bet_type
                   = parseResultString(r.view[1].result.details).betType
              /\ r.view[1].result.round
                   = parseResultString(r.view[1].result.details).round
              /\ r.view[1].result.time
                   = parseResultString(r.view[1].result.details).time
              /\ r.view[1].result.details = ResKO =>
                   /\ r.view[1].result.bet_type = "KO/TKO"
                   /\ r.view[1].result.round = 2
                   /\ r.view[1].result.time = <<"0", ":", "5", "1">>

\* the scenario has run to its end: the bout is shown with the KO/TKO
\* result of round 2 at 0:51
C13_Witness ==
  \E s \in Slots :
    /\ ViewDone(req[s]) /\ rejections = 0
    /\ DatedBeforeToday(req[s].date, req[s].clock)
    /\ Len(req[s].view) = 1 /\ req[s].view[1].hasResult
    /\ req[s].view[1].result.details = ResKO
    /\ req[s].view[1].result.round = 2

\* ---- deleteEvent ----------------------------------------------------------
\* the rows of other events than id: the events, their bouts, those bouts'
\* results
RowsOfOtherEvents(evs, bs, results, id) ==
  [events |-> {e \in evs : e.id # id},
   bouts |-> {b \in bs : b.event_id # id},
   bout_results |-> {x \in results :
                       \E b \in bs : b.id = x.bout_id /\ b.event_id # id}]

\* C14: every statement of a deleteEvent(id) leaves the fighters, the bet
\* types and the rows of every other event as they were, and when the call
\* returns true the event id, its bouts and the results of its bouts are gone.
C14_DeleteRemovesOnlyTheEvent ==
  [][\A s \in Slots :
       (req[s].kind = "deleteEvent" /\ req[s].pc \in {"delBouts", "delEvent"}
          /\ req'[s] # req[s]) =>
         /\ fighters' = fighters
         /\ bet_types' = bet_types
         /\ RowsOfOtherEvents(events', bouts', bout_results', req[s].id)
              = RowsOfOtherEvents(events, bouts, bout_results, req[s].id)
         /\ req'[s].ret = "true" =>
              /\ \A e \in events' : e.id # req[s].id
              /\ \A b \in bouts' : b.event_id # req[s].id
              /\ \A x \in bout_results' :
                   \E b \in bouts' : b.id = x.bout_id /\ b.event_id # req[s].id
    ]_vars

\* a deleteEvent has removed an event with a bout and its result while
\* another event's bout and result are stored
C14_Witness ==
  \E s \in Slots :
    /\ req[s].kind = "deleteEvent" /\ req[s].pc = "done" /\ req[s].ret = "true"
    /\ req[s].deleted >= 1 /\ req[s].cascaded >= 1
    /\ \E b \in bouts : b.event_id # req[s].id
         /\ \E x \in bout_results : x.bout_id = b.id

\* C15: DELETE /api/events/:id answers 404 when no event with that id is
\* stored, and 204 only when the delete statement removed an event.
C15_DeleteAbsentIs404 ==
  [][\A s \in Slots :
       (req[s].kind = "deleteEvent" /\ req[s].pc \in {"delBouts", "delEvent"}
          /\ req'[s].pc = "done") =>
         /\ (\A e \in events : e.id # req[s].id) => req'[s].status = 404
         /\ req'[s].status = 204 =>
              /\ \E e \in events : e.id = req[s].id
              /\ \A e \in events' : e.id # req[s].id
    ]_vars

\* ---- updateEvent ----------------------------------------------------------
\* row after differs from row before in supplied fields only, and carries the
\* supplied values when changed says the update was stored
MergedOnly(before, after, partial, changed) ==
  /\ after.id = before.id
  /\ after.date = before.date
  /\ partial.name = "" => after.name = before.name
  /\ partial.location = "" => after.location = before.location
  /\ IF changed
     THEN /\ partial.name # "" => after.name = partial.name
          /\ partial.location # "" => after.location = partial.location
     ELSE after = before

\* C16: updateEvent(id, partial) returns null and leaves the store as it was
\* when no event has that id; otherwise only the supplied fields of that one
\* row change, and bouts, results, fighters, bet types and all other events
\* stay as they were.
C16_UpdateTouchesOneRow ==
  [][\A s \in Slots :
       (req[s].kind = "idle" /\ req'[s].kind = "updateEvent") =>
         /\ <<fighters, bouts, bout_results, bet_types>>'
              = <<fighters, bouts, bout_results, bet_types>>
         /\ {e \in events' : e.id # req'[s].id} = {e \in events : e.id # req'[s].id}
         /\ (\A e \in events : e.id # req'[s].id) =>
              req'[s].ret = "null" /\ events' = events
         /\ \A e \in events :
              e.id = req'[s].id =>
                \E after \in events' :
                  MergedOnly(e, after, req'[s].partial, req'[s].ret = "value")
    ]_vars

\* an updateEvent has renamed one event while another event is stored, and
\* the renamed row kept the location it had
C16_Witness ==
  \E s \in Slots :
    /\ req[s].kind = "updateEvent" /\ req[s].pc = "done" /\ req[s].ret = "value"
    /\ \E e \in events :
         e.id = req[s].id /\ e.name = req[s].partial.name /\ e.location \in EventLocations
    /\ \E e \in events : e.id # req[s].id

\* ---- updateBetResult ------------------------------------------------------
\* the keys that have a stored bet
StoredBetKeys(ub) == {<<x.user_id, x.bout_id, x.bet_type_id>> : x \in ub}

\* C17: updateBetResult on a key without a stored bet returns null (404) and
\* stores nothing; on a key with a bet it changes the result of that row only
\* and leaves its predicted_value and every other bet as they were.
C17_ResultOnlyOnPlacedBet ==
  [][\A s \in Slots :
       (bet[s].kind = "idle" /\ bet'[s].kind = "updateBetResult") =>
         /\ StoredBetKeys(user_bets') = StoredBetKeys(user_bets)
         /\ user_bets' \ RowsOfKey(user_bets', bet'[s])
              = user_bets \ RowsOfKey(user_bets, bet'[s])
         /\ RowsOfKey(user_bets, bet'[s]) = {} =>
              /\ bet'[s].ret = "null" /\ bet'[s].status = 404
              /\ user_bets' = user_bets
         /\ \A x \in RowsOfKey(user_bets, bet'[s]) :
              \E y \in RowsOfKey(user_bets', bet'[s]) :
                /\ y.predicted_value = x.predicted_value
                /\ y.result = IF bet'[s].ret = "value" THEN bet'[s].result ELSE x.result
    ]_vars

\* an outcome has been attached to a placed bet while a bet on another key
\* is stored without one
C17_Witness ==
  \E s \in Slots :
    /\ bet[s].kind = "updateBetResult" /\ bet[s].pc = "done" /\ bet[s].ret = "value"
    /\ \E x \in RowsOfKey(user_bets, bet[s]) :
         x.result = bet[s].result /\ x.predicted_value # ""
    /\ \E y \in user_bets \ RowsOfKey(user_bets, bet[s]) : y.result = ""

\* ---- request validation ---------------------------------------------------
\* some bout result of the list has no winner, no loser or no result
LacksField(rs) ==
  \E k \in 1..Len(rs) :
    rs[k].winner = <<>> \/ rs[k].loser = <<>> \/ rs[k].result = <<>>

\* C18: a POST /api/event-results in which some bout result lacks a field is
\* answered 400 on arrival with the store untouched, and never is at a step
\* of addEventResults (the steps that read or write the store).
C18_InvalidBatchNeverReachesStore ==
  /\ [](\A s \in Slots :
          LacksField(req[s].results) =>
            /\ req[s].kind = "badRequest"
            /\ req[s].pc = "done" /\ req[s].status = 400
            /\ req[s].eventId = 0 /\ req[s].tasks = <<>> /\ req[s].resolved = 0)
  /\ [][\A s \in Slots :
          (LacksField(req'[s].results) /\ req'[s] # req[s]) =>
            /\ req[s].kind = "idle"
            /\ <<fighters, events, bouts, bout_results, bet_types, rejections>>'
                 = <<fighters, events, bouts, bout_results, bet_types, rejections>>
       ]_vars

\* a batch whose first bout result is complete and whose second lacks a field
\* has been answered 400 by a service that stores an event
C18_Witness ==
  \E s \in Slots :
    /\ req[s].kind = "badRequest" /\ req[s].status = 400
    /\ Len(req[s].results) = 2
    /\ ~LacksField(<<req[s].results[1]>>) /\ LacksField(<<req[s].results[2]>>)
    /\ events # {}

\* ---- addEventResults: the event of the batch ------------------------------
\* the bouts and the bout results a step adds belong to event eventId
AddedRowsBelongTo(eventId) ==
  /\ \A b \in bouts' \ bouts : b.event_id = eventId
  /\ \A x \in bout_results' \ bout_results :
       \E b \in bouts' : b.id = x.bout_id /\ b.event_id = eventId

\* C19: addEventResults served alone: when an event with exactly the name is
\* stored, no event row is inserted and every bout and result the batch adds
\* belongs to that event; when none is stored, one event row with the name,
\* date and location of the request and no bout is inserted before any bout
\* result is processed.
C19_EventFoundOrCreatedOnce ==
  [][\A s \in Slots :
       (req[s].kind = "addEventResults" /\ req[s].pc # "done" /\ req'[s] # req[s]) =>
         IF req[s].pc = "lookupEvent"
         THEN /\ events' = events /\ bouts' = bouts /\ bout_results' = bout_results
              /\ IF \E e \in events : e.name = req[s].ename
                 THEN /\ req'[s].pc # "arInsEvent"
                      /\ req'[s].ret # "false" =>
                           \E e \in events :
                             e.name = req[s].ename /\ e.id = req'[s].eventId
                 ELSE req'[s].pc = "arInsEvent" \/ req'[s].ret = "false"
         ELSE IF req[s].pc = "arInsEvent"
         THEN /\ \A e \in events : e.name # req[s].ename
              /\ req[s].i = 0 /\ req[s].resolved = 0
              /\ bouts' = bouts /\ bout_results' = bout_results
              /\ IF req'[s].ret = "false"
                 THEN events' = events
                 ELSE \E e \in events' \ events :
                        /\ events' = events \cup {e}
                        /\ e.name = req[s].ename /\ e.date = req[s].date
                        /\ e.location = req[s].location
                        /\ e.id = req'[s].eventId
                        /\ \A b \in bouts' : b.event_id # e.id
         ELSE /\ events' = events
              /\ \E e \in events : e.name = req[s].ename /\ e.id = req[s].eventId
              /\ AddedRowsBelongTo(req[s].eventId)
    ]_vars

\* a batch has attached a result to a bout of an event that was stored before
\* the batch arrived (it carries another date than the request), while another
\* event is stored
C19_Witness ==
  \E s \in Slots :
    /\ req[s].kind = "addEventResults" /\ req[s].pc = "done" /\ req[s].ret = "true"
    /\ \E e \in events :
         /\ e.id = req[s].eventId /\ e.name = req[s].ename /\ e.date # req[s].date
         /\ \E b \in bouts : b.event_id = e.id
              /\ \E x \in bout_results : x.bout_id = b.id
    /\ \E e \in events : e.id # req[s].eventId

\* ---- addEventResults: the bout of a bout result ---------------------------
\* bout b of event eventId has the winner of the current bout result of r in
\* the left slot and its loser in the right slot
WinnerLeftLoserRight(b, r) ==
  /\ b.event_id = r.eventId
  /\ b.fighter_left_id \in 1..Len(fighters)
  /\ b.fighter_right_id \in 1..Len(fighters)
  /\ fighters[b.fighter_left_id].name = Trim(r.results[r.i].winner)
  /\ fighters[b.fighter_right_id].name = StripLoserSuffix(Trim(r.results[r.i].loser))

\* C20: for a bout result addEventResults goes on with a stored bout only if
\* that bout has the winner left and the loser right in the event of the
\* batch; when no such bout is stored it inserts one (unless the store rejects
\* a statement), also when the two fighters are stored in the opposite slots,
\* and the result row is written for the bout found or inserted.
C20_BoutReusedOnlyWinnerLeft ==
  [][\A s \in Slots :
       (req[s].kind = "addEventResults" /\ req'[s] # req[s]) =>
         /\ req[s].pc = "boutLookup" =>
              /\ bouts' = bouts
              /\ req'[s].pc = "btLookup" =>
                   \E b \in bouts : b.id = req'[s].boutId /\ WinnerLeftLoserRight(b, req[s])
              /\ (\A b \in bouts : ~WinnerLeftLoserRight(b, req[s])) =>
                   req'[s].pc = "boutInsert" \/ rejections' > rejections
         /\ req[s].pc = "boutInsert" =>
              /\ \A b \in bouts : ~WinnerLeftLoserRight(b, req[s])
              /\ IF req'[s].pc = "btLookup"
                 THEN \E b \in bouts' \ bouts :
                        /\ bouts' = bouts \cup {b}
                        /\ WinnerLeftLoserRight(b, req[s])
                        /\ b.id = req'[s].boutId
                 ELSE bouts' = bouts
         /\ req[s].pc = "resInsert" =>
              \A x \in bout_results' \ bout_results :
                /\ x.bout_id = req[s].boutId
                /\ \E b \in bouts : b.id = x.bout_id /\ WinnerLeftLoserRight(b, req[s])
                                    /\ x.winner_id = b.fighter_left_id
    ]_vars

\* a batch has ended with two bouts of one event between the same two
\* fighters in opposite slots, each with a result won by its left fighter
C20_Witness ==
  \E s \in Slots :
    /\ req[s].kind = "addEventResults" /\ req[s].pc = "done"
    /\ \E b1, b2 \in bouts :
         /\ b1.event_id = req[s].eventId /\ b2.event_id = req[s].eventId
         /\ b1.fighter_left_id = b2.fighter_right_id
         /\ b1.fighter_right_id = b2.fighter_left_id
         /\ b1.fighter_left_id # b1.fighter_right_id
         /\ \A b \in {b1, b2} :
              \E x \in bout_results : x.bout_id = b.id /\ x.winner_id = b.fighter_left_id

\* ---- bet types ------------------------------------------------------------
\* C21: the bet_types table holds at most one row per name, and for a
\* category whose name is stored addEventResults does not go on to insert a
\* bet type.
C21_OneBetTypePerName ==
  /\ [](\A i, j \in 1..Len(bet_types) :
          bet_types[i].name = bet_types[j].name => i = j)
  /\ [][\A s \in Slots :
          (req[s].kind = "addEventResults" /\ req[s].pc = "btLookup"
             /\ req'[s] # req[s]
             /\ BetTypeIds(bet_types,
                           parseResultString(req[s].results[req[s].i].result).betType) # {})
            => req'[s].pc # "btInsert"
       ]_vars

\* ---- the result classifier ------------------------------------------------
\* text s has the word w as a substring
Contains(s, w) ==
  \E i \in 1..(Len(s) - Len(w) + 1) : SubSeq(s, i, i + Len(w) - 1) = w

\* C22: parseResultString returns a complete triple for every text, with
\* betType "KO/TKO" if the text contains "KO/TKO"; otherwise, if it contains
\* "Dec", "Split Decision" if it contains "Split", else "Unanimous Decision"
\* if it contains "Unanimous", else "Decision"; and "Decision" for a text
\* with none of the keywords and for the empty text.
C22_ClassifierTotalOrdered ==
  \A s \in Slots :
    (req[s].kind = "parseResultString" /\ req[s].pc = "done") =>
      /\ DOMAIN req[s].parsed = {"betType", "round", "time"}
      /\ req[s].parsed.round \in Nat
      /\ req[s].parsed.betType =
           IF Contains(req[s].text, TxtKOTKO) THEN "KO/TKO"
           ELSE IF ~Contains(req[s].text, TxtDec) THEN "Decision"
           ELSE IF Contains(req[s].text, TxtSplit) THEN "Split Decision"
           ELSE IF Contains(req[s].text, TxtUnanimous) THEN "Unanimous Decision"
           ELSE "Decision"

\* a text with "Dec", "Unanimous" and then "Split" has been classified
C22_Witness ==
  \E s \in Slots :
    /\ req[s].kind = "parseResultString" /\ req[s].pc = "done"
    /\ req[s].text = TxtDec \o TxtUnanimous \o TxtSplit
    /\ req[s].parsed.betType = "Split Decision"

\* ---- the record parser ----------------------------------------------------
\* segment k of the hyphen-separated record; empty when the record has fewer
\* segments
SegmentOf(record, k) ==
  IF k <= Len(Split(record, "-")) THEN Split(record, "-")[k] ELSE <<>>

\* the value of a segment that is a decimal number (white space and a plus
\* sign may precede it), 0 for any other segment
PlainValue(seg) ==
  LET rest == Drop(seg, SpaceRun(seg))
      digits == IF rest # <<>> /\ Head(rest) = "+" THEN Tail(rest) ELSE rest
  IN IF digits # <<>> /\ \A i \in 1..Len(digits) : IsDigit(digits[i])
     THEN DigitsValue(digits) ELSE 0

\* C23 as stated: parseRecord returns a complete triple in which segments 0,
\* 1 and 2 give wins, losses and draws and a missing, empty or non-numeric
\* segment gives 0.
C23_NonNumericSegmentIsZero ==
  \A s \in Slots :
    (req[s].kind = "parseRecord" /\ req[s].pc = "done") =>
      req[s].tally = [wins |-> PlainValue(SegmentOf(req[s].record, 1)),
                      losses |-> PlainValue(SegmentOf(req[s].record, 2)),
                      draws |-> PlainValue(SegmentOf(req[s].record, 3))]

\* the number at the start of a segment: after leading white space and one
\* plus sign, its decimal digits, or its hexadecimal digits after 0x or 0X;
\* 0 when there is no such digit
LeadingValue(seg) ==
  LET rest == Drop(seg, SpaceRun(seg))
      digits == IF rest # <<>> /\ Head(rest) = "+" THEN Tail(rest) ELSE rest
  IN IF HasHexPrefix(digits)
     THEN HexValue(Take(Drop(digits, 2), HexRun(Drop(digits, 2))))
     ELSE DigitsValue(Take(digits, DigitRun(digits)))

\* C23: parseRecord returns a complete triple of non-negative integers in
\* which segments 0, 1 and 2 give wins, losses and draws by the number at
\* their start, whatever text follows it; a missing or empty segment and one
\* that does not start with a number give 0, the empty record gives 0-0-0,
\* and segments after the third are ignored.
C23_SegmentsReadByLeadingNumber ==
  \A s \in Slots :
    (req[s].kind = "parseRecord" /\ req[s].pc = "done") =>
      /\ req[s].tally = [wins |-> LeadingValue(SegmentOf(req[s].record, 1)),
                         losses |-> LeadingValue(SegmentOf(req[s].record, 2)),
                         draws |-> LeadingValue(SegmentOf(req[s].record, 3))]
      /\ \A f \in {"wins", "losses", "draws"} : req[s].tally[f] \in Nat
      /\ req[s].record = <<>> => req[s].tally = [wins |-> 0, losses |-> 0, draws |-> 0]

\* the record "4x-abc-+5-7" has been parsed to 4-0-5
C23_Witness ==
  \E s \in Slots :
    /\ req[s].kind = "parseRecord" /\ req[s].pc = "done"
    /\ req[s].record = JoinTexts(<<(<<"4", "x">>), (<<"a", "b", "c">>),
                                   (<<"+", "5">>), (<<"7">>)>>, <<"-">>)
    /\ req[s].tally = [wins |-> 4, losses |-> 0, draws |-> 5]

\* ---- tallies --------------------------------------------------------------
\* C24: every stored fighter has wins, losses and draws that are non-negative
\* integers, whatever record string was supplied.
C24_TalliesNonNegative ==
  \A i \in 1..Len(fighters) :
    /\ fighters[i].wins \in Nat
    /\ fighters[i].losses \in Nat
    /\ fighters[i].draws \in Nat

\* a fighter has been stored from the record "-5-3" with the tally 0-5-3
C24_Witness ==
  \E s \in Slots :
    /\ req[s].kind = "fighter" /\ req[s].pc = "done"
    /\ req[s].record = RecLeadingHyphen
    /\ \E i \in 1..Len(fighters) :
         /\ fighters[i].name = req[s].fname
         /\ fighters[i].wins = 0 /\ fighters[i].losses = 5 /\ fighters[i].draws = 3

\* ---- concurrent requests --------------------------------------------------
\* C25: with the unique key on user_bets, under every interleaving of two
\* createUserBet calls a key has at most one row, and an insert that arrives
\* when the key has a row is rejected: that call returns null (500) and the
\* stored rows stay as they are.
C25_RacingBetsOneRow ==
  /\ [](\A k \in BetKeys :
          Cardinality({x \in user_bets :
                         <<x.user_id, x.bout_id, x.bet_type_id>> = k}) <= 1)
  /\ [][\A s \in Slots :
          (bet[s].kind = "createUserBet" /\ bet[s].pc = "insert"
             /\ bet'[s] # bet[s] /\ RowsOfKey(user_bets, bet[s]) # {}) =>
            /\ bet'[s].ret = "null" /\ bet'[s].status = 500
            /\ user_bets' = user_bets
       ]_vars

\* two calls for one key have both found no bet; the first insert is stored
\* and the second, with another value, has been rejected by the store
C25_Witness ==
  /\ rejections = 0
  /\ bet["r1"].kind = "createUserBet" /\ bet["r2"].kind = "createUserBet"
  /\ bet["r1"].pc = "done" /\ bet["r2"].pc = "done"
  /\ bet["r1"].ret = "value" /\ bet["r2"].ret = "null" /\ bet["r2"].status = 500
  /\ RowsOfKey(user_bets, bet["r1"]) = RowsOfKey(user_bets, bet["r2"])
  /\ bet["r1"].predicted_value # bet["r2"].predicted_value
  /\ bet["r1"].replaced = ""
  /\ \A x \in RowsOfKey(user_bets, bet["r1"]) :
       x.predicted_value = bet["r1"].predicted_value

\* the request in slot s has one fighter call, which has found no row for its
\* name and is about to write
InsertsAfterNotFound(s) ==
  /\ req[s].pc = "tasks" /\ Len(req[s].tasks) = 1
  /\ req[s].tasks[1].pc \in {"wrL", "wrR"}
  /\ req[s].tasks[1].existing.id = 0

\* C26: the insert of a createOrUpdateFighter call that found no row for its
\* name is accepted by the store whether or not a row of that name has been
\* stored in the meantime, so that two requests can store two fighters of one
\* name.
C26_RacingFightersBothInsert ==
  [][\A s \in Slots :
       (InsertsAfterNotFound(s) /\ req'[s] # req[s]
          /\ rejections' = rejections /\ Len(fighters) < MaxFighters) =>
         /\ Len(fighters') = Len(fighters) + 1
         /\ fighters'[Len(fighters')].name
              = CallArgs(req[s], 1, SideOf(req[s].tasks[1].pc)).name
         /\ \A i \in 1..Len(fighters) : fighters'[i] = fighters[i]
    ]_vars

\* a createEvent and an addEventResults request in flight together have
\* stored two fighters of one name
C26_Witness ==
  /\ req["r1"].kind = "createEvent" /\ req["r2"].kind = "addEventResults"
  /\ \E i, j \in 1..Len(fighters) : i # j /\ fighters[i].name = fighters[j].name

\* ---- rows that are never removed ------------------------------------------
\* C27: no step removes a fighter or a bet type or changes a fighter's name
\* or a bet type's name or description: both tables only grow.
C27_FightersAndBetTypesOnlyGrow ==
  [][/\ Len(fighters') >= Len(fighters)
     /\ \A i \in 1..Len(fighters) : fighters'[i].name = fighters[i].name
     /\ Len(bet_types') >= Len(bet_types)
     /\ \A k \in 1..Len(bet_types) : bet_types'[k] = bet_types[k]
    ]_vars

\* an event with a bout and its result has been deleted, and the fighters and
\* the bet type they referred to are stored
C27_Witness ==
  \E s \in Slots :
    /\ req[s].kind = "deleteEvent" /\ req[s].pc = "done" /\ req[s].ret = "true"
    /\ req[s].deleted >= 1 /\ req[s].cascaded >= 1
    /\ bouts = {}
    /\ Len(fighters) >= 2 /\ Len(bet_types) >= 1

\* ---- server start-up ------------------------------------------------------
\* q is the lowest free port at or above p and every port from p up to it is
\* in use
LowestFreeBehindBusy(host, p, q) ==
  /\ q \in p..PortLimit /\ host[q] = "free"
  /\ \A k \in p..(q - 1) : host[k] = "inuse"

\* C28: a server that tries port p when the ports from p up to the lowest
\* free port q are in use eventually listens on q; a listen error other than
\* EADDRINUSE ends the attempts: the port is not changed and no listen follows.
C28_PortFallback ==
  /\ \A s \in Slots : \A p, q \in 1..PortLimit :
       (req[s].kind = "startServer" /\ req[s].pc = "listen" /\ req[s].port = p
          /\ LowestFreeBehindBusy(req[s].ports, p, q))
         ~> (req[s].pc = "listening" /\ req[s].port = q)
  /\ [][\A s \in Slots :
          (req[s].kind = "startServer" /\ req[s].pc = "error"
             /\ req[s].code # "EADDRINUSE" /\ req'[s] # req[s]) =>
            req'[s].pc = "failed" /\ req'[s].port = req[s].port
       ]_vars
  /\ [](\A s \in Slots :
          (req[s].kind = "startServer" /\ req[s].pc \in {"listen", "error", "listening"}) =>
            \A k \in req[s].configured..(req[s].port - 1) : req[s].ports[k] = "inuse")

\* the server listens two ports above the configured one, both below in use
C28_Witness ==
  \E s \in Slots :
    /\ req[s].kind = "startServer" /\ req[s].pc = "listening"
    /\ req[s].port = req[s].configured + 2
    /\ req[s].ports[req[s].configured] = "inuse"

\* the bouts of event id and the results of those bouts
RowsUnderEvent(bs, results, id) ==
  [bouts |-> {b \in bs : b.event_id = id},
   bout_results |-> {x \in results :
                       \E b \in bs : b.id = x.bout_id /\ b.event_id = id}]

\* C29: deleteEvent(id) deletes the bouts of the event before the event row.
\* The bouts statement never touches the events; when it errors the call
\* returns false with the bouts and results as they were, otherwise the
\* bouts of the event and their results are gone before the event statement
\* runs.  When the event statement errors the call returns false with the
\* events as they were and the bouts of the event (and their results) absent.
C29_BoutsDeletedBeforeEvent ==
  [][\A s \in Slots :
       (req[s].kind = "deleteEvent" /\ req'[s] # req[s]) =>
         /\ req[s].pc = "delBouts" =>
              /\ events' = events
              /\ IF req'[s].pc = "delEvent"
                 THEN RowsUnderEvent(bouts', bout_results', req[s].id)
                        = [bouts |-> {}, bout_results |-> {}]
                 ELSE /\ req'[s].pc = "done" /\ req'[s].ret = "false"
                      /\ bouts' = bouts /\ bout_results' = bout_results
         /\ req[s].pc = "delEvent" =>
              /\ RowsUnderEvent(bouts, bout_results, req[s].id)
                   = [bouts |-> {}, bout_results |-> {}]
              /\ req'[s].pc = "done"
              /\ req'[s].ret = "false" =>
                   /\ events' = events
                   /\ bouts' = bouts /\ bout_results' = bout_results
              /\ req'[s].ret # "false" =>
                   /\ req'[s].ret = "true"
                   /\ \A e \in events' : e.id # req[s].id
    ]_vars

\* a deleteEvent returned false at the event statement: the event is stored,
\* its bout and the result of the bout were removed
C29_Witness ==
  \E s \in Slots :
    /\ req[s].kind = "deleteEvent" /\ req[s].pc = "done" /\ req[s].ret = "false"
    /\ req[s].deleted >= 1 /\ req[s].cascaded >= 1
    /\ \E e \in events : e.id = req[s].id
    /\ \A b \in bouts : b.event_id # req[s].id

\* ---- createOrUpdateFighter: rejected update -------------------------------
\* the call t of request r is at its write and r2 is r after that write
WriteOf(r, r2, t) ==
  /\ t \in 1..Len(r.tasks)
  /\ r.tasks[t].pc \in {"wrL", "wrR"}
  /\ IF Len(r2.tasks) = Len(r.tasks) THEN r2.tasks[t] # r.tasks[t]
     ELSE \A u \in 1..Len(r.tasks) : u # t => r.tasks[u].pc = "done"

\* C30: when the store rejects the update of a fighter found by the lookup,
\* the fighters table is unchanged and the call yields the row as read by the
\* lookup: a direct call returns it; createEvent takes it as the left or
\* right fighter and, with both fighters resolved, keeps the bout for the
\* insert; addEventResults takes it and goes on to the bout lookup.
C30_RejectedUpdateReturnsRowRead ==
  [][\A s \in Slots : \A t \in 1..Len(req[s].tasks) :
       LET r == req[s]
           r2 == req'[s]
       IN (r.pc = "tasks" /\ r2 # r /\ rejections' # rejections
             /\ WriteOf(r, r2, t) /\ r.tasks[t].existing.id # 0) =>
            /\ fighters' = fighters
            /\ r.tasks[t].existing.id \in 1..Len(fighters')
            /\ fighters'[r.tasks[t].existing.id].name = r.tasks[t].existing.name
            /\ r.kind = "fighter" =>
                 r2.pc = "done" /\ r2.ret = "value" /\ r2.retF = r.tasks[t].existing
            /\ (r.kind # "fighter" /\ r.tasks[t].pc = "wrL") =>
                 r2.tasks[t].pc = "selR" /\ r2.tasks[t].left = r.tasks[t].existing
            /\ (r.kind # "fighter" /\ r.tasks[t].pc = "wrR" /\ r.tasks[t].left.id # 0) =>
                 /\ r2.tasks[t].right = r.tasks[t].existing
                 /\ r.kind = "createEvent" =>
                      r2.pc \in {"tasks", "insBouts"} /\ t \in ResolvedTasks(r2.tasks)
                 /\ r.kind = "addEventResults" => r2.pc = "boutLookup"
    ]_vars

\* a createEvent of one bout has stored the bout although the update of one
\* of its two fighters was rejected: that fighter's stored tally is not the
\* one of the record sent
C30_Witness ==
  \E s \in Slots :
    LET r == req[s]
    IN /\ r.kind = "createEvent" /\ r.pc = "done" /\ r.ret = "value"
       /\ rejections = 1 /\ Len(r.bouts) = 1 /\ r.inserted = 1
       /\ r.bouts[1].left_fighter # r.bouts[1].right_fighter
       /\ \E b \in bouts :
            /\ b.event_id = r.retId
            /\ \/ /\ fighters[b.fighter_left_id].name = r.bouts[1].left_fighter
                  /\ fighters[b.fighter_left_id].wins
                       # parseRecord(r.bouts[1].left_record).wins
               \/ /\ fighters[b.fighter_right_id].name = r.bouts[1].right_fighter
                  /\ fighters[b.fighter_right_id].wins
                       # parseRecord(r.bouts[1].right_record).wins

\* ---- round and time of a result string -------------------------------------
\* the MM:SS R<n> patterns of s, each by the positions of its parts: the
\* minutes are s[i..c-1], ":" is s[c], the seconds are s[c+1..e], white space
\* may follow, "R" is s[r] and the round is s[r+1..j], which no further digit
\* follows
TimeAndRoundPatterns(s) ==
  UNION {UNION {UNION {{<<i, c, e, r, j>> :
                          i \in {k \in 1..(c - 1) : \A n \in k..(c - 1) : IsDigit(s[n])},
                          j \in {k \in (r + 1)..Len(s) :
                                   /\ \A n \in (r + 1)..k : IsDigit(s[n])
                                   /\ k < Len(s) => ~IsDigit(s[k + 1])}} :
                      e \in {k \in (c + 1)..(r - 1) :
                               /\ \A n \in (c + 1)..k : IsDigit(s[n])
                               /\ \A n \in (k + 1)..(r - 1) : IsSpace(s[n])}} :
                r \in {k \in (c + 2)..Len(s) : s[k] = "R"}} :
         c \in {k \in 1..Len(s) : s[k] = ":"}}

\* C31: parseResultString gives a round and a time only to a text that
\* contains "KO/TKO" and a MM:SS R<n> pattern: the round is the n and the time
\* the MM:SS of one such pattern. A "KO/TKO" text without the pattern and
\* every other text, with or without the pattern, get round 0 and no time.
C31_RoundAndTimeOnlyForKnockout ==
  \A s \in Slots :
    (req[s].kind = "parseResultString" /\ req[s].pc = "done") =>
      \E found \in {TimeAndRoundPatterns(req[s].text)} :
        IF Contains(req[s].text, TxtKOTKO) /\ found # {}
        THEN \E m \in found :
               /\ req[s].parsed.round = DigitsValue(SubSeq(req[s].text, m[4] + 1, m[5]))
               /\ req[s].parsed.time = SubSeq(req[s].text, m[1], m[3])
        ELSE req[s].parsed.round = 0 /\ req[s].parsed.time = <<>>

\* a knockout text whose pattern has no white space before "R" got its round
\* and time
C31_Witness ==
  \E s \in Slots :
    /\ req[s].kind = "parseResultString" /\ req[s].pc = "done"
    /\ req[s].text = TxtKOTKO \o <<"1", ":", "0", "5", "R", "3">>
    /\ req[s].parsed.round = 3
    /\ req[s].parsed.time = <<"1", ":", "0", "5">>

\* ---- names as scraped ------------------------------------------------------
\* the text t is the name x between white space, followed by the loser
\* suffix (suffixed) or not
SpellsName(t, x, suffixed) ==
  \E i \in 1..Len(t) :
    /\ \A k \in 1..(i - 1) : IsSpace(t[k])
    /\ i + Len(x) - 1 <= Len(t)
    /\ SubSeq(t, i, i + Len(x) - 1) = x
    /\ \E tail \in {SubSeq(t, i + Len(x), Len(t))} :
         IF suffixed
         THEN /\ Len(tail) >= 2 /\ tail[1] = "\n" /\ tail[2] = "L"
              /\ \A k \in 3..Len(tail) : IsSpace(tail[k])
         ELSE \A k \in 1..Len(tail) : IsSpace(tail[k])

ScrapedNames == {NameA, NameB, NameC}

\* C32: addEventResults resolves a winner text to the fighter of the trimmed
\* name and a loser text, name X with or without the "\nL" suffix and white
\* space around it, to the fighter named X; no fighter row is ever named
\* otherwise than by a plain name and no two rows share a name.
C32_NamesNormalised ==
  /\ \A k \in 1..Len(fighters) :
       /\ fighters[k].name \in ScrapedNames
       /\ \A n \in 1..Len(fighters) : fighters[n].name = fighters[k].name => n = k
  /\ \A s \in Slots : \A x \in ScrapedNames :
       (req[s].kind = "addEventResults" /\ req[s].pc = "boutLookup") =>
         /\ (\E f \in BOOLEAN : SpellsName(req[s].results[req[s].i].loser, x, f)) =>
              /\ req[s].tasks[1].right.name = x
              /\ fighters[req[s].tasks[1].right.id].name = x
         /\ SpellsName(req[s].results[req[s].i].winner, x, FALSE) =>
              /\ req[s].tasks[1].left.name = x
              /\ fighters[req[s].tasks[1].left.id].name = x

\* a batch that names the new loser C twice, with the suffix and with white
\* space around the suffixed text, was processed: one row named C is stored
\* and a bout has it on the right
C32_Witness ==
  \E s \in Slots :
    /\ req[s].kind = "addEventResults" /\ req[s].pc = "done" /\ req[s].ret = "true"
    /\ Len(req[s].results) = 2
    /\ req[s].results[1].loser = NameC \o LoserSuffix
    /\ req[s].results[2].loser = <<" ">> \o NameC \o LoserSuffix \o <<" ">>
    /\ Len(fighters) = 3 /\ fighters[3].name = NameC
    /\ Cardinality({b \in bouts : b.fighter_right_id = 3}) = 2

\* ---- the bout of a bout result ---------------------------------------------
\* C33: every stored bout result belongs to a stored bout and names the left
\* fighter of that bout as the winner; a row addEventResults writes belongs
\* to a bout of the event the request resolved, an event stored under the
\* name of the request, and its winner is the fighter of the winner's name.
C33_ResultOnBoutOfResolvedEvent ==
  /\ [](\A x \in bout_results :
          \E b \in bouts : b.id = x.bout_id /\ x.winner_id = b.fighter_left_id)
  /\ [][\A s \in Slots :
          (req[s].kind = "addEventResults" /\ req[s].pc = "resInsert"
             /\ req'[s] # req[s]) =>
            \A x \in bout_results' \ bout_results :
              \E b \in bouts' :
                /\ b.id = x.bout_id
                /\ b.event_id = req[s].eventId
                /\ \E e \in events' : e.id = b.event_id /\ e.name = req[s].ename
                /\ x.winner_id = b.fighter_left_id
                /\ x.winner_id # b.fighter_right_id
                /\ fighters'[x.winner_id].name = req[s].tasks[1].left.name
       ]_vars

\* a result was written for a bout of the event of the request while another
\* event holds a bout between the same fighters in the same slots, which
\* still has its own result only
C33_Witness ==
  \E s \in Slots :
    /\ req[s].kind = "addEventResults" /\ req[s].pc = "done"
    /\ \E b \in bouts :
         /\ b.event_id = req[s].eventId
         /\ b.fighter_left_id = OtherBout.fighter_left_id
         /\ b.fighter_right_id = OtherBout.fighter_right_id
         /\ \E x \in bout_results : x.bout_id = b.id /\ x.winner_id = b.fighter_left_id
    /\ OtherBout \in bouts
    /\ {x \in bout_results : x.bout_id = OtherBout.id} = {OtherResult}

\* ---- a name stored twice ----------------------------------------------------
\* the name x is on two or more rows of fs
StoredTwice(fs, x) == Cardinality({k \in 1..Len(fs) : fs[k].name = x}) >= 2

\* the call t of request r is at its lookup and r2 is r after that lookup
LookupOf(r, r2, t) ==
  /\ t \in 1..Len(r.tasks)
  /\ r.tasks[t].pc \in {"selL", "selR"}
  /\ IF Len(r2.tasks) = Len(r.tasks) THEN r2.tasks[t] # r.tasks[t]
     ELSE \A u \in 1..Len(r.tasks) : u # t => r.tasks[u].pc = "done"

\* C34: while a name is stored on two or more rows, a createOrUpdateFighter
\* for that name ends at its lookup with null and the rows of that name stay
\* as they are; createEvent stores no bout with a fighter of that name and
\* still returns the event (201); addEventResults skips every bout result
\* that names such a fighter and still returns true (201).
C34_NameStoredTwiceResolvesToNull ==
  /\ [][\A s \in Slots : \A t \in 1..Len(req[s].tasks) :
          (req[s].pc = "tasks" /\ req'[s] # req[s] /\ LookupOf(req[s], req'[s], t)
             /\ StoredTwice(fighters,
                            CallArgs(req[s], t, SideOf(req[s].tasks[t].pc)).name)) =>
            /\ fighters' = fighters
            /\ req[s].kind = "fighter" =>
                 req'[s].pc = "done" /\ req'[s].ret = "null"
            /\ (req[s].kind # "fighter" /\ req[s].tasks[t].pc = "selL") =>
                 req'[s].tasks[t].pc = "selR" /\ req'[s].tasks[t].left.id = 0
            /\ (req[s].kind = "createEvent" /\ req[s].tasks[t].pc = "selR") =>
                 IF Len(req'[s].tasks) = Len(req[s].tasks)
                 THEN req'[s].tasks[t].pc = "done" /\ req'[s].tasks[t].right.id = 0
                 ELSE req'[s].pc = "done" /\ req'[s].ret = "value"
                      /\ req'[s].status = 201
            /\ (req[s].kind = "addEventResults" /\ req[s].tasks[t].pc = "selR") =>
                 /\ req'[s].outcome[req[s].i] = "fighter"
                 /\ bouts' = bouts /\ bout_results' = bout_results
                 /\ req'[s].pc = "done" => req'[s].ret = "true" /\ req'[s].status = 201
       ]_vars
  /\ [][\A k \in 1..Len(fighters) :
          StoredTwice(fighters, fighters[k].name) =>
            k \in 1..Len(fighters') /\ fighters'[k] = fighters[k]]_vars
  /\ [](\A b \in bouts :
          /\ ~StoredTwice(fighters, fighters[b.fighter_left_id].name)
          /\ ~StoredTwice(fighters, fighters[b.fighter_right_id].name))
  /\ [](\A s \in Slots :
          (req[s].kind = "addEventResults" /\ req[s].pc = "done"
             /\ req[s].ret = "true") =>
            /\ req[s].status = 201
            /\ \A k \in 1..Len(req[s].results) :
                 (\/ StoredTwice(fighters, Trim(req[s].results[k].winner))
                  \/ StoredTwice(fighters,
                                 StripLoserSuffix(Trim(req[s].results[k].loser)))) =>
                   req[s].outcome[k] = "fighter")

\* with A stored twice, a batch of two bout results was answered 201 with
\* the result of B against C written and the result of A against B skipped,
\* no store statement having been rejected
C34_Witness ==
  \E s \in Slots :
    /\ req[s].kind = "addEventResults" /\ req[s].pc = "done"
    /\ req[s].ret = "true" /\ req[s].status = 201
    /\ rejections = 0
    /\ StoredTwice(fighters, NameA)
    /\ req[s].outcome = <<"ok", "fighter">>
    /\ Cardinality(bouts) = 1 /\ Cardinality(bout_results) = 1

\* ---- an event dated by a text that is no date -------------------------------
\* C35: for an event whose date text is no date getEventById returns the
\* bouts of the event, none of them with a result block, whether a result
\* is stored or not and at every clock reading.
C35_UndatedEventNeverConcluded ==
  \A s \in Slots :
    (ViewDone(req[s]) /\ req[s].date \in InvalidDates) =>
      /\ req[s].found = {}
      /\ \A k \in 1..Len(req[s].view) :
           /\ ~req[s].view[k].hasResult
           /\ req[s].view[k].result = NoResultBlock
      /\ req[s].misses = 0 =>
           Len(req[s].view) = Cardinality({b \in bouts : b.event_id = req[s].id})

\* the event dated "TBD" was returned with its bout and no result block
\* although the result of the bout is stored, on a day of June 2025
C35_Witness ==
  \E s \in Slots :
    /\ ViewDone(req[s]) /\ req[s].date = DateWord /\ req[s].misses = 0
    /\ Len(req[s].view) = 1 /\ ~req[s].view[1].hasResult
    /\ \E x \in bout_results : x.bout_id = req[s].view[1].id
    /\ req[s].clock.now \in ClockInstants

\* the fields of a user_bets row that createUserBet's update leaves alone
KeptFields(x) == <<x.user_id, x.bout_id, x.bet_type_id, x.result, x.created_at>>

\* C36: createUserBet on a key that already has a bet changes only the
\* predicted_value of that row: the result recorded by updateBetResult and
\* created_at are left unchanged, no other row is modified, and no row is
\* added or removed.
C36_OverwriteChangesOnlyPredictedValue ==
  [][\A s \in Slots :
       (bet[s].kind = "createUserBet" /\ bet[s].pc = "update" /\ bet'[s].pc = "done")
       => /\ Cardinality(user_bets') = Cardinality(user_bets)
          /\ \A x \in user_bets :
               IF x \in RowsOfKey(user_bets, bet[s])
               THEN \E y \in user_bets' :
                      /\ KeptFields(y) = KeptFields(x)
                      /\ y.predicted_value \in {x.predicted_value, bet[s].predicted_value}
                      /\ bet'[s].ret = "value"
                           => y.predicted_value = bet[s].predicted_value
               ELSE x \in user_bets']_vars

\* a bet that already carried a result, created at an earlier instant, has
\* had its predicted_value replaced while the bet of another key stayed put
C36_Witness ==
  \E s \in Slots :
    /\ bet[s].kind = "createUserBet" /\ bet[s].pc = "done" /\ bet[s].ret = "value"
    /\ bet[s].replaced # "" /\ bet[s].replaced # bet[s].predicted_value
    /\ \E x \in RowsOfKey(user_bets, bet[s]) :
         /\ x.predicted_value = bet[s].predicted_value
         /\ x.result = "won" /\ x.created_at = 1
    /\ \E z \in user_bets \ RowsOfKey(user_bets, bet[s]) :
         z.result = "lost" /\ z.created_at = MaxTime

\* the (wins, losses, draws) of a row or of a parsed record
Triple(x) == <<x.wins, x.losses, x.draws>>

\* C37: under any interleaving of two createOrUpdateFighter calls for the
\* same stored fighter with different record strings, every write stores
\* the three fields of the writing call's parsed record together (the last
\* writer wins), so once both calls have returned the stored triple is the
\* parsed record of one of the two and never a mixture.
C37_LastWriterWinsWholeTriple ==
  /\ [][\A s \in Slots :
         (fighters' # fighters /\ req'[s] # req[s])
         => Triple(fighters'[1]) = Triple(parseRecord(req[s].record))]_vars
  /\ [](\A s \in Slots : \A o \in Slots \ {s} :
         (/\ req[s].pc = "done" /\ req[o].pc = "done"
          /\ req[s].outcome = <<"updated">> /\ req[o].outcome = <<"updated">>
          /\ req[s].record # req[o].record)
         => /\ Len(fighters) = 1
            /\ Triple(fighters[1]) \in {Triple(parseRecord(req[s].record)),
                                        Triple(parseRecord(req[o].record))}
            /\ Triple(fighters[1]) \in {Triple(req[s].retF), Triple(req[o].retF)})

\* both calls read the row before either wrote it, both updates were
\* stored, and the table holds the record of the call in slot r2
C37_Witness ==
  /\ req["r1"].pc = "done" /\ req["r2"].pc = "done"
  /\ req["r1"].outcome = <<"updated">> /\ req["r2"].outcome = <<"updated">>
  /\ req["r1"].record = Rec201 /\ req["r2"].record = Rec12
  /\ Triple(req["r1"].existing) = <<0, 0, 0>>
  /\ Triple(req["r2"].existing) = <<0, 0, 0>>
  /\ Triple(fighters[1]) = <<1, 2, 0>>

\* C38: two concurrent addEventResults requests for an event name that is
\* not yet stored can both find no event and each create its own event row:
\* the request that found no event inserts a row of its name whether or not
\* a row of that name has been stored since, and the bouts it then writes
\* hang under its own event.
C38_EachRequestCreatesItsOwnEvent ==
  [][\A s \in Slots :
       LET r == req[s]
           r2 == req'[s]
       IN /\ (r.pc = "arInsEvent" /\ r2 # r /\ rejections' = rejections
                 /\ nextEventId <= MaxEvents)
             => /\ events' = events \cup {[id |-> nextEventId, name |-> r.ename,
                                           date |-> r.date, location |-> r.location]}
                /\ Cardinality(events') = Cardinality(events) + 1
                /\ r2.eventId = nextEventId /\ r2.pc = "tasks"
          /\ (r.pc = "boutInsert" /\ r2 # r /\ bouts' # bouts)
             => \E b \in bouts' \ bouts :
                  /\ bouts' = bouts \cup {b}
                  /\ b.event_id = r.eventId
                  /\ \E e \in events : e.id = r.eventId /\ e.name = r.ename]_vars

\* both requests have returned true and the store holds two events of the
\* same name, each with its own bout between the same two fighters and a
\* result on that bout
C38_Witness ==
  /\ \A s \in Slots : req[s].kind = "addEventResults" /\ req[s].pc = "done"
                        /\ req[s].ret = "true"
  /\ req["r1"].ename = req["r2"].ename
  /\ \E e1 \in events, e2 \in events :
       /\ e1.id # e2.id /\ e1.name = e2.name
       /\ \E b1 \in bouts, b2 \in bouts :
            /\ b1.event_id = e1.id /\ b2.event_id = e2.id
            /\ b1.fighter_left_id = b2.fighter_left_id
            /\ b1.fighter_right_id = b2.fighter_right_id
            /\ \E x \in bout_results : x.bout_id = b1.id
            /\ \E y \in bout_results : y.bout_id = b2.id

\* the answer of an addEventResults that ended at the event lookup
EndedAtEventLookup(r) ==
  /\ r.pc = "done" /\ r.ret = "false" /\ r.status = 500
  /\ r.tasks = <<>> /\ r.i = 0 /\ r.boutId = 0 /\ r.betTypeId = 0
  /\ \A k \in 1..Len(r.outcome) : r.outcome[k] = "none"

\* C39: createEvent inserts its event whether or not an event of that name
\* is stored, and once two events share a name every addEventResults for
\* that name returns false (500) at the event lookup: no fighter is resolved
\* and no bout, bet type or bout result is written.
C39_NamesakesBlockResults ==
  /\ [][\A s \in Slots :
         LET r == req[s]
             r2 == req'[s]
         IN /\ (r.kind = "createEvent" /\ r.pc = "insEvent" /\ r2 # r
                   /\ rejections' = rejections /\ nextEventId <= MaxEvents)
               => /\ Cardinality(events') = Cardinality(events) + 1
                  /\ EventsNamed(events', r.ename)
                       = EventsNamed(events, r.ename)
                           \cup {[id |-> nextEventId, name |-> r.ename,
                                  date |-> r.date, location |-> r.location]}
            /\ (r.kind = "addEventResults" /\ r.pc = "lookupEvent" /\ r2 # r
                   /\ Cardinality(EventsNamed(events, r.ename)) > 1)
               => /\ EndedAtEventLookup(r2)
                  /\ UNCHANGED <<fighters, events, bouts, bout_results, bet_types>>]_vars
  /\ [](\A s \in Slots :
         (req[s].kind = "addEventResults"
            /\ Cardinality(EventsNamed(events, req[s].ename)) > 1)
         => \/ req[s].pc = "lookupEvent"
            \/ EndedAtEventLookup(req[s]))

\* two events created under one name, one of them with a bout; the results
\* posted for that name afterwards were answered 500 and nothing was written
\* for them
C39_Witness ==
  \E s \in Slots :
    /\ req[s].kind = "addEventResults" /\ EndedAtEventLookup(req[s])
    /\ rejections = 0
    /\ Cardinality(EventsNamed(events, req[s].ename)) = 2
    /\ Cardinality(bouts) = 1 /\ bout_results = {} /\ bet_types = <<>>
    /\ Len(fighters) = 2

====
